---- MODULE Spec2Model ----
(***************************************************************************)
(* Model of jellyfin-helper-ro: the trailer exclusion ledger (main.py),    *)
(* the per-folder pipeline of JellyfinHelper.run_once (main.py), the TMDB  *)
(* title-match validator (tmdb_client.py) and the validated trailer search *)
(* (trailer_manager.py).                                                   *)
(*                                                                         *)
(* Three specifications share the variables:                               *)
(*   SpecLedger  the ledger operations applied in any order                *)
(*   SpecRun     consecutive runs of run_once over a small library         *)
(*   SpecMatch   _find_best_match applied to bounded inputs                *)
(*   SpecScore   _score_candidate and _pick_best applied to one candidate  *)
(*   SpecQuery   _build_queries applied to bounded inputs                  *)
(*   SpecSearch  the query loop of _search_youtube_validated               *)
(*   SpecMarks   the StateManager operations applied in any order          *)
(*   SpecState   consecutive processes, each one run_once over a movie and *)
(*               a show folder with their processed-file marks             *)
(*   SpecSeasons the season loop of _download_season_trailers              *)
(***************************************************************************)
EXTENDS Integers, Sequences, FiniteSets, TLC

VARIABLES
    failures,     \* the in-memory ledger dict of run_once / the ledger functions
    trace,        \* SpecLedger: the operations applied so far (observer)
    pc,           \* SpecRun: position of the process inside run_once
    run,          \* SpecRun: number of runs started
    queue,        \* SpecRun: folders of the current for-loop still to process
    name,         \* SpecRun: disk, folder -> folder name
    trailer,      \* SpecRun: disk, folder -> trailer.mkv exists
    ledgerFile,   \* SpecRun: disk, content of TRAILER_FAILURES_FILE
    errors,       \* SpecRun: the local `errors` of run_once
    changes,      \* SpecRun: the local `changes` of run_once
    hist,         \* SpecRun: per run and folder, what the pipeline did (observer)
    saves,        \* SpecRun: calls of _save_trailer_failures in this run (observer)
    results,      \* SpecMatch: the result list given to _find_best_match
    query_title,  \* SpecMatch: the query title
    query_year,   \* SpecMatch: the query year, <<>> when none is supplied
    matched,      \* SpecMatch: what _find_best_match returned: the position of the record
    original_title, \* trailer search: the localized/original title
    en_title,     \* trailer search: the fallback (English) title
    search_year,  \* trailer search: the argument `year`, <<>> when absent
    is_show,      \* trailer search: category flag
    is_season,    \* trailer search: season context set
    season_num,   \* trailer search: the season number
    candidate,    \* SpecScore: the candidate record given to the scorer
    score,        \* SpecScore: what _score_candidate returned
    best,         \* SpecScore: what _pick_best returned for the one candidate
    queries,      \* SpecQuery, SpecSearch: the list _build_queries returned
    tpc,          \* position inside the trailer-manager function under study
    qi,           \* SpecSearch: index of the next query of the loop
    seen_ids,     \* SpecSearch: the local seen_ids
    all_candidates, \* SpecSearch: the local all_candidates
    issued,       \* SpecSearch: queries given to _yt_search_json so far (observer)
    outcomes,     \* SpecSearch: how the last of those calls ended, and the
                  \* accumulator before it when it failed (observer)
    ret,          \* SpecSearch: the value returned
    st_file,      \* disk, content of STATE_FILE
    st_index,     \* StateManager.state['processed_files']: path -> stored mtime
    st_disk,      \* disk, video -> its name form, mtime and sidecar files
    st_pc,        \* SpecState: position of the process
    st_run,       \* SpecState: number of processes started
    st_log,       \* what the current run did per video / the last query (observer)
    st_full,      \* SpecState: videos fully processed by an earlier run (observer)
    st_marked,    \* SpecMarks: path -> mtime at its last mark_processed (observer)
    sn_todo,      \* SpecSeasons: the sorted season folders still to visit
    sn_disk,      \* SpecSeasons: season number -> trailer.mkv exists
    sn_misses,    \* SpecSeasons: the local consecutive_misses
    sn_log,       \* SpecSeasons: the seasons searched, with the outcome (observer)
    sn_pc         \* SpecSeasons: position inside _download_season_trailers

vars == <<failures, trace, pc, run, queue, name, trailer, ledgerFile, errors,
          changes, hist, saves,
          results, query_title, query_year, matched,
          original_title, en_title, search_year, is_show, is_season, season_num,
          candidate, score, best, queries, tpc, qi, seen_ids, all_candidates,
          issued, outcomes, ret,
          st_file, st_index, st_disk, st_pc, st_run, st_log, st_full, st_marked,
          sn_todo, sn_disk, sn_misses, sn_log, sn_pc>>

ledgerVars == <<trace>>
runVars == <<pc, run, queue, name, trailer, ledgerFile, errors, changes, hist,
             saves>>
matchVars == <<results, query_title, query_year, matched>>
argVars == <<original_title, en_title, search_year, is_show, is_season, season_num>>
stateVars == <<st_file, st_index, st_disk, st_pc, st_run, st_log, st_full,
               st_marked>>
seasonVars == <<sn_todo, sn_disk, sn_misses, sn_log, sn_pc>>
trailerVars == <<argVars, candidate, score, best, queries, tpc, qi, seen_ids,
                 all_candidates, issued, outcomes,
                   ret>>

-----------------------------------------------------------------------------
(* Bounds of the model *)

MaxId == 2          \* catalog identifiers are 1..MaxId
MaxOps == 4         \* SpecLedger: ledger operations applied
MaxRuns == 3        \* SpecRun: runs of run_once
MaxResults == 3     \* SpecMatch: length of the result list

Ids == 1..MaxId

-----------------------------------------------------------------------------
(* Program constants *)

TRAILER_MAX_ATTEMPTS == 2
EXCLUSION_YEAR_CUTOFF == 2000

-----------------------------------------------------------------------------
(* The exclusion ledger: a dict, modelled as a function whose DOMAIN is    *)
(* the set of keys present.                                                *)

\* key = f"tmdb-{tmdb_id}"
Key(tmdb_id) == <<"tmdb", tmdb_id>>

EmptyLedger == << >>

\* del d[k]
DictDel(d, k) == [x \in DOMAIN d \ {k} |-> d[x]]

\* d[k] = v
DictPut(d, k, v) == [x \in DOMAIN d \cup {k} |-> IF x = k THEN v ELSE d[x]]

_is_trailer_excluded(f, tmdb_id) ==
    IF Key(tmdb_id) \in DOMAIN f THEN f[Key(tmdb_id)].excluded ELSE FALSE

\* mutant: the flag follows the current count instead of being set once
RecordFailureRecomputed(f, tmdb_id, nm) ==
    LET key == Key(tmdb_id)
        entry == IF key \in DOMAIN f THEN f[key]
                 ELSE [count |-> 0, name |-> nm, excluded |-> FALSE]
        c == entry.count + 1
    IN DictPut(f, key, [count |-> c, name |-> nm,
                        excluded |-> (c = TRAILER_MAX_ATTEMPTS)])

\* mutant: the flag is set one failure too late
RecordFailureLateFlag(f, tmdb_id, nm) ==
    LET key == Key(tmdb_id)
        entry == IF key \in DOMAIN f THEN f[key]
                 ELSE [count |-> 0, name |-> nm, excluded |-> FALSE]
        c == entry.count + 1
    IN DictPut(f, key, [count |-> c, name |-> nm,
                        excluded |-> IF c > TRAILER_MAX_ATTEMPTS THEN TRUE
                                     ELSE entry.excluded])

_record_trailer_failure(f, tmdb_id, nm) ==
    LET key == Key(tmdb_id)
        entry == IF key \in DOMAIN f THEN f[key]
                 ELSE [count |-> 0, name |-> nm, excluded |-> FALSE]
        c == entry.count + 1
    IN DictPut(f, key, [count |-> c, name |-> nm,
                        excluded |-> IF c >= TRAILER_MAX_ATTEMPTS THEN TRUE
                                     ELSE entry.excluded])

\* mutant: a success resets the count but keeps the entry
RecordSuccessKeepsEntry(f, tmdb_id) ==
    IF Key(tmdb_id) \in DOMAIN f
    THEN DictPut(f, Key(tmdb_id), [f[Key(tmdb_id)] EXCEPT !.count = 0])
    ELSE f

_record_trailer_success(f, tmdb_id) ==
    IF Key(tmdb_id) \in DOMAIN f THEN DictDel(f, Key(tmdb_id)) ELSE f

-----------------------------------------------------------------------------
(* The media library on disk.  A folder name is "A (<year>) [tmdb-<id>]":  *)
(* year 0 stands for a name without "(dddd)", id 0 for a name without a    *)
(* "[tmdb-...]" tag; orig marks the "title (original title) (year)" form   *)
(* that _tag_folder builds for non-English productions.                    *)

Movies == {"m1", "m2"}
Shows == {"s1"}
Folders == Movies \cup Shows
SameDir(f) == IF f \in Movies THEN Movies ELSE Shows

Years == {0, 1995, 2005}
FolderNames == [year : Years, orig : BOOLEAN, id : 0..MaxId]

\* sorted(...) of Path objects: "A" < "A (1995)" < "A (1995) [tmdb-1]" <
\* "A (2005)" < "A (Orig) (1995) [tmdb-1]" < "A [tmdb-1]"
NameGroup(n) == IF n.year = 0 THEN (IF n.id = 0 THEN 0 ELSE 3)
                ELSE IF n.orig THEN 2 ELSE 1
NameLess(a, b) ==
    \/ NameGroup(a) < NameGroup(b)
    \/ NameGroup(a) = NameGroup(b) /\ a.year < b.year
    \/ NameGroup(a) = NameGroup(b) /\ a.year = b.year /\ a.id < b.id

SortedFolders(S) ==
    CHOOSE s \in [1..Cardinality(S) -> S] :
        /\ \A i, j \in 1..Cardinality(S) : i < j => NameLess(name[s[i]], name[s[j]])

\* The libraries the runs start from: an untagged folder next to a tagged
\* one of the same title and year, folders of several years carrying one
\* identifier, names that cannot be parsed, folders with distinct identifiers
N(y, i) == [year |-> y, orig |-> FALSE, id |-> i]
Library(a, b, c) == [f \in Folders |-> IF f = "m1" THEN a ELSE IF f = "m2" THEN b ELSE c]
Libraries == {Library(N(1995, 0), N(1995, 1), N(1995, 1)),
              Library(N(1995, 1), N(2005, 1), N(0, 1)),
              Library(N(0, 0), N(2005, 0), N(1995, 0)),
              Library(N(1995, 1), N(1995, 2), N(2005, 2))}

\* re.search(r'\((\d{4})\)', name): 0 when the name has no year
_extract_year_from_folder(n) == n.year

\* parse_folder_name: (title, year), or (None, None) when the name does not
\* end in "(dddd)"
parse_folder_name(n) == IF n.year = 0 THEN [title |-> FALSE, year |-> 0]
                        ELSE [title |-> TRUE, year |-> n.year]

-----------------------------------------------------------------------------
(* The per-folder pipeline.  The collaborators' answers are inputs:        *)
(*   sr    the identifier of the record the catalog search returns, 0 for  *)
(*         no match                                                        *)
(*   og    the record is a non-English production with another original    *)
(*         title                                                           *)
(*   dl    outcome of _download_movie_trailer / _download_show_trailer:    *)
(*         "ok", or "fail" (no catalog record, no validated search result, *)
(*         or the download failed: all return False)                       *)
(*   ex    where the pipeline raises: "none", "tag" (inside _tag_folder,   *)
(*         before the rename), "files" (rename/metadata stage), "post"     *)
(*         (shows: after the trailer stage)                                *)
(*   chg   process_*_folder renamed a file                                 *)

Outcomes == {"ok", "fail"}
Raises == {"none", "tag", "files", "post"}
Inputs == [sr : 0..MaxId, og : BOOLEAN, dl : Outcomes, ex : Raises, chg : BOOLEAN]

\* _tag_folder: out is "noparse", "nomatch", "collision" (all return None),
\* "raised", or "renamed" with the new name nm
_tag_folder(f, in) ==
    LET n == name[f]
        new == IF in.og THEN [year |-> n.year, orig |-> TRUE, id |-> in.sr]
               ELSE [n EXCEPT !.id = in.sr]
    IN IF ~parse_folder_name(n).title THEN [out |-> "noparse", nm |-> n]
       ELSE IF in.ex = "tag" THEN [out |-> "raised", nm |-> n]
       ELSE IF in.sr = 0 THEN [out |-> "nomatch", nm |-> n]
       ELSE IF \E g \in SameDir(f) : name[g] = new
            THEN [out |-> "collision", nm |-> n]
       ELSE [out |-> "renamed", nm |-> new]

\* stages of a _handle_trailer that calls _download_*_trailer, the only
\* caller of the trailer search and of the download
AttemptStages == {"trailer", "attempt"}

\* mutant: the ledger is consulted for every year
HandleTrailerNoCutoff(fl, n, has, dl) ==
    IF has \/ n.id = 0 THEN [fl |-> fl, trailer |-> has, stages |-> {"trailer"}]
    ELSE IF _is_trailer_excluded(fl, n.id)
         THEN [fl |-> fl, trailer |-> FALSE, stages |-> {"trailer"}]
    ELSE IF dl = "ok"
         THEN [fl |-> _record_trailer_success(fl, n.id), trailer |-> TRUE,
               stages |-> AttemptStages]
    ELSE [fl |-> _record_trailer_failure(fl, n.id, n), trailer |-> FALSE,
          stages |-> AttemptStages]

\* mutant: the exclusion flag is not looked at
HandleTrailerNoGate(fl, n, has, dl) ==
    LET year == _extract_year_from_folder(n)
        old == year # 0 /\ year < EXCLUSION_YEAR_CUTOFF
    IN IF has \/ n.id = 0 THEN [fl |-> fl, trailer |-> has, stages |-> {"trailer"}]
       ELSE IF dl = "ok"
            THEN [fl |-> _record_trailer_success(fl, n.id), trailer |-> TRUE,
                  stages |-> AttemptStages]
       ELSE [fl |-> IF old THEN _record_trailer_failure(fl, n.id, n) ELSE fl,
             trailer |-> FALSE, stages |-> AttemptStages]

\* mutant: the ledger is keyed by the folder's year and id, not by the id alone
HandleTrailerKeyedByFolder(fl, n, has, dl) ==
    LET year == _extract_year_from_folder(n)
        old == year # 0 /\ year < EXCLUSION_YEAR_CUTOFF
        fid == n.year * 10 + n.id
    IN IF has \/ n.id = 0 THEN [fl |-> fl, trailer |-> has, stages |-> {"trailer"}]
       ELSE IF old /\ _is_trailer_excluded(fl, fid)
            THEN [fl |-> fl, trailer |-> FALSE, stages |-> {"trailer"}]
       ELSE IF dl = "ok"
            THEN [fl |-> _record_trailer_success(fl, fid), trailer |-> TRUE,
                  stages |-> AttemptStages]
       ELSE [fl |-> IF old THEN _record_trailer_failure(fl, fid, n) ELSE fl,
             trailer |-> FALSE, stages |-> AttemptStages]

\* _handle_trailer on ledger fl for a folder named n whose trailer.mkv
\* exists iff has: the ledger, the trailer file and the stages run
_handle_trailer(fl, n, has, dl) ==
    LET year == _extract_year_from_folder(n)
        old == year # 0 /\ year < EXCLUSION_YEAR_CUTOFF
    IN IF has \/ n.id = 0 THEN [fl |-> fl, trailer |-> has, stages |-> {"trailer"}]
       ELSE IF old /\ _is_trailer_excluded(fl, n.id)
            THEN [fl |-> fl, trailer |-> FALSE, stages |-> {"trailer"}]
       ELSE IF dl = "ok"
            THEN [fl |-> _record_trailer_success(fl, n.id), trailer |-> TRUE,
                  stages |-> AttemptStages]
       ELSE [fl |-> IF old THEN _record_trailer_failure(fl, n.id, n) ELSE fl,
             trailer |-> FALSE, stages |-> AttemptStages]

\* mutant: a folder that cannot be tagged goes on through the pipeline
PipelineIgnoresTagFailure(f, in) ==
    LET n == name[f]
        tag == IF n.id = 0 THEN _tag_folder(f, in) ELSE [out |-> "na", nm |-> n]
        ht == _handle_trailer(failures, tag.nm, trailer[f], in.dl)
    IN IF tag.out = "raised"
       THEN [raised |-> TRUE, tag |-> tag.out, nm |-> n, fl |-> failures,
             trailer |-> trailer[f], stages |-> {}, changed |-> FALSE]
       ELSE [raised |-> FALSE, tag |-> tag.out, nm |-> tag.nm, fl |-> ht.fl,
             trailer |-> ht.trailer, stages |-> {"files"} \cup ht.stages,
             changed |-> in.chg]

\* _process_movie / _process_show for folder f: whether it raised, the tag
\* outcome, the folder's name afterwards, the ledger, the trailer file, the
\* stages that ran and the value returned
Pipeline(f, in) ==
    LET n == name[f]
        tag == IF n.id = 0 THEN _tag_folder(f, in) ELSE [out |-> "na", nm |-> n]
        ht == _handle_trailer(failures, tag.nm, trailer[f], in.dl)
    IN IF tag.out = "raised"
       THEN [raised |-> TRUE, tag |-> tag.out, nm |-> n, fl |-> failures,
             trailer |-> trailer[f], stages |-> {}, changed |-> FALSE]
       ELSE IF tag.out \in {"noparse", "nomatch", "collision"}
       THEN [raised |-> FALSE, tag |-> tag.out, nm |-> n, fl |-> failures,
             trailer |-> trailer[f], stages |-> {}, changed |-> FALSE]
       ELSE IF in.ex = "files"
       THEN [raised |-> TRUE, tag |-> tag.out, nm |-> tag.nm, fl |-> failures,
             trailer |-> trailer[f], stages |-> {"files"}, changed |-> FALSE]
       ELSE [raised |-> (in.ex = "post"), tag |-> tag.out, nm |-> tag.nm,
             fl |-> ht.fl, trailer |-> ht.trailer,
             stages |-> {"files"} \cup ht.stages,
             changed |-> (in.ex # "post" /\ in.chg)]

-----------------------------------------------------------------------------
(* Persistence of the ledger.  The file is absent, holds the JSON of a     *)
(* ledger, holds a truncated JSON text (json.JSONDecodeError), cannot be   *)
(* read (OSError), or holds bytes that do not decode as text               *)
(* (UnicodeDecodeError, a ValueError that is neither of the two caught).   *)

File(k, d) == [kind |-> k, data |-> d]
InitialFiles == {File(k, EmptyLedger) : k \in {"absent", "unreadable", "undecodable"}}

\* _load_trailer_failures: except (json.JSONDecodeError, OSError)
_load_trailer_failures(file) ==
    IF file.kind = "absent" THEN [raised |-> FALSE, value |-> EmptyLedger]
    ELSE IF file.kind = "json" THEN [raised |-> FALSE, value |-> file.data]
    ELSE IF file.kind \in {"truncated", "unreadable"}
         THEN [raised |-> FALSE, value |-> EmptyLedger]
    ELSE [raised |-> TRUE, value |-> EmptyLedger]

\* _save_trailer_failures: write_text truncates and writes in place; an
\* OSError is logged, leaving the old file ("nowrite") or a partial one
SaveOutcomes == {"ok", "nowrite", "partial"}
_save_trailer_failures(file, fl, io) ==
    IF io = "ok" THEN File("json", fl)
    ELSE IF io = "partial" THEN File("truncated", EmptyLedger)
    ELSE file

-----------------------------------------------------------------------------
(* run_once *)

FreshHist == [f \in Folders |->
                [n |-> 0, raised |-> FALSE, tag |-> "na", renames |-> 0, stages |-> {}]]

\* except Exception: errors += 1
ErrorsAfter(e, raised) == IF raised THEN e + 1 ELSE e

\* mutant: no try/except around the folder, the exception ends the loop
LoopAbortsOnRaise(q, raised) == IF raised THEN << >> ELSE Tail(q)

\* for folder in ...: try/except, then the next folder
LoopNext(q, raised) == Tail(q)

\* run_once up to the movie listing: load the ledger, list the movie folders
RunStart ==
    /\ pc \in {"idle", "aborted"}
    /\ run < MaxRuns
    /\ run' = run + 1
    /\ UNCHANGED <<hist, saves, errors, changes>>
    /\ LET ld == _load_trailer_failures(ledgerFile)
       IN IF ld.raised
          THEN /\ pc' = "aborted"
               /\ failures' = EmptyLedger
               /\ queue' = << >>
          ELSE /\ pc' = "movies"
               /\ failures' = ld.value
               /\ queue' = SortedFolders(Movies)
    /\ UNCHANGED <<name, trailer, ledgerFile>>
    /\ UNCHANGED <<ledgerVars, matchVars, trailerVars, stateVars, seasonVars>>

\* one iteration of a folder loop of run_once
Process(f) ==
    \E in \in Inputs :
        /\ in.ex = "post" => f \in Shows
        /\ in.ex = "tag" => name[f].id = 0
        /\ name[f].id # 0 => in.sr = 0 /\ ~in.og
        /\ in.sr = 0 => ~in.og
        /\ LET r == Pipeline(f, in)
           IN /\ name' = [name EXCEPT ![f] = r.nm]
              /\ trailer' = [trailer EXCEPT ![f] = r.trailer]
              /\ failures' = r.fl
              /\ errors' = ErrorsAfter(errors, r.raised)
              /\ changes' = (changes \/ r.changed)
              /\ queue' = LoopNext(queue, r.raised)
              /\ hist' = [hist EXCEPT ![f] =
                            [n |-> @.n + 1, raised |-> r.raised, tag |-> r.tag,
                             renames |-> @.renames + (IF r.tag = "renamed" THEN 1 ELSE 0),
                             stages |-> r.stages]]
        /\ UNCHANGED <<pc, run, ledgerFile, saves>>
        /\ UNCHANGED <<ledgerVars, matchVars, trailerVars, stateVars, seasonVars>>

ProcessMovie == pc = "movies" /\ queue # << >> /\ Process(Head(queue))

\* the movie loop is over: list the show folders
ListShows ==
    /\ pc = "movies" /\ queue = << >>
    /\ pc' = "shows"
    /\ queue' = SortedFolders(Shows)
    /\ UNCHANGED <<failures, run, name, trailer, ledgerFile, errors, changes, hist,
                   saves>>
    /\ UNCHANGED <<ledgerVars, matchVars, trailerVars, stateVars, seasonVars>>

ProcessShow == pc = "shows" /\ queue # << >> /\ Process(Head(queue))

\* _save_trailer_failures(failures) after both loops
SaveLedger ==
    /\ pc = "shows" /\ queue = << >>
    /\ \E io \in SaveOutcomes :
        ledgerFile' = _save_trailer_failures(ledgerFile, failures, io)
    /\ saves' = saves + 1
    /\ pc' = "finish"
    /\ UNCHANGED <<failures, run, queue, name, trailer, errors, changes, hist>>
    /\ UNCHANGED <<ledgerVars, matchVars, trailerVars, stateVars, seasonVars>>

\* trigger_scan, update_last_scan, the summary: the process ends
Finish ==
    /\ pc = "finish"
    /\ pc' = "idle"
    /\ failures' = EmptyLedger
    /\ errors' = 0
    /\ changes' = FALSE
    /\ hist' = FreshHist
    /\ saves' = 0
    /\ UNCHANGED <<run, queue, name, trailer, ledgerFile>>
    /\ UNCHANGED <<ledgerVars, matchVars, trailerVars, stateVars, seasonVars>>

LedgerParked == trace = << >>
MatchParked == /\ results = << >>
               /\ query_title = << >>
               /\ query_year = << >>
               /\ matched = [called |-> FALSE, found |-> FALSE, index |-> 0]
StateParked ==
    /\ st_file = << >> /\ st_index = << >> /\ st_disk = << >>
    /\ st_pc = "off" /\ st_run = 0 /\ st_log = << >> /\ st_full = {}
    /\ st_marked = << >>

SeasonParked ==
    /\ sn_todo = << >> /\ sn_disk = << >> /\ sn_misses = 0
    /\ sn_log = << >> /\ sn_pc = "off"

TrailerParked ==
    /\ original_title = << >> /\ en_title = << >> /\ search_year = << >>
    /\ is_show = FALSE /\ is_season = FALSE /\ season_num = 0
    /\ candidate = << >> /\ score = 0 /\ best = << >>
    /\ queries = << >> /\ tpc = "off" /\ qi = 0
    /\ seen_ids = {} /\ all_candidates = << >> /\ issued = << >> /\ outcomes = << >>
    /\ ret = << >>

\* the library before the first run: folders not yet tagged or tagged by an
\* earlier run, names distinct within a directory, no trailer yet
InitRun ==
    /\ failures = EmptyLedger
    /\ pc = "idle"
    /\ run = 0
    /\ queue = << >>
    /\ name \in Libraries
    /\ trailer = [f \in Folders |-> FALSE]
    /\ ledgerFile \in InitialFiles
    /\ errors = 0
    /\ changes = FALSE
    /\ hist = FreshHist
    /\ saves = 0
    /\ LedgerParked
    /\ MatchParked
    /\ TrailerParked
    /\ StateParked
    /\ SeasonParked

NextRun == RunStart \/ ProcessMovie \/ ListShows \/ ProcessShow \/ SaveLedger \/ Finish

SpecRun == InitRun /\ [][NextRun]_vars

-----------------------------------------------------------------------------
(* SpecLedger: _record_trailer_failure and _record_trailer_success applied *)
(* to one ledger in any order, for any identifiers and display names.      *)

DisplayNames == {"A (1995) [tmdb-1]", "A (Orig) (1995) [tmdb-1]"}

RunParked ==
    /\ pc = "off"
    /\ run = 0
    /\ queue = << >>
    /\ name = [f \in Folders |-> N(0, 0)]
    /\ trailer = [f \in Folders |-> FALSE]
    /\ ledgerFile = File("absent", EmptyLedger)
    /\ errors = 0
    /\ changes = FALSE
    /\ hist = FreshHist
    /\ saves = 0

InitLedger ==
    /\ failures = EmptyLedger
    /\ trace = << >>
    /\ RunParked
    /\ MatchParked
    /\ TrailerParked
    /\ StateParked
    /\ SeasonParked

RecordFailure ==
    \E id \in Ids, nm \in DisplayNames :
        /\ Len(trace) < MaxOps
        /\ failures' = _record_trailer_failure(failures, id, nm)
        /\ trace' = Append(trace, [op |-> "failure", id |-> id])
        /\ UNCHANGED <<runVars, matchVars, trailerVars, stateVars, seasonVars>>

RecordSuccess ==
    \E id \in Ids :
        /\ Len(trace) < MaxOps
        /\ failures' = _record_trailer_success(failures, id)
        /\ trace' = Append(trace, [op |-> "success", id |-> id])
        /\ UNCHANGED <<runVars, matchVars, trailerVars, stateVars, seasonVars>>

NextLedger == RecordFailure \/ RecordSuccess

SpecLedger == InitLedger /\ [][NextLedger]_vars

\* the operations applied to identifier id, in order
RECURSIVE OpsOn(_, _)
OpsOn(t, id) ==
    IF t = << >> THEN << >>
    ELSE IF Head(t).id = id THEN <<Head(t).op>> \o OpsOn(Tail(t), id)
    ELSE OpsOn(Tail(t), id)

HasEntry(id) == Key(id) \in DOMAIN failures
EntryOf(id) == failures[Key(id)]

\* C1: from a ledger without an entry for X, the first record_failure(X)
\* leaves count 1 and excluded false, the second sets excluded, a following
\* record_success(X) removes the entry, and a record_failure(X) after that
\* creates a fresh entry with count 1 and excluded false.
C1_FailFailSuccessFail ==
    \A x \in Ids :
        LET ops == OpsOn(trace, x)
        IN /\ ops = <<"failure">> =>
                HasEntry(x) /\ EntryOf(x).count = 1 /\ ~EntryOf(x).excluded
           /\ ops = <<"failure", "failure">> =>
                HasEntry(x) /\ EntryOf(x).excluded /\ _is_trailer_excluded(failures, x)
           /\ ops = <<"failure", "failure", "success">> => ~HasEntry(x)
           /\ ops = <<"failure", "failure", "success", "failure">> =>
                HasEntry(x) /\ EntryOf(x).count = 1 /\ ~EntryOf(x).excluded

C1_Witness ==
    \E x \in Ids :
        /\ OpsOn(trace, x) = <<"failure", "failure", "success", "failure">>
        /\ HasEntry(x) /\ EntryOf(x).count = 1

\* C2: once an identifier is excluded, further record_failure calls leave it
\* excluded; is_excluded(id) turns false again only in a record_success(id)
\* step, which deletes the entry.
C2_ExcludedIsSticky ==
    [][\A id \in Ids :
          _is_trailer_excluded(failures, id) =>
             \/ _is_trailer_excluded(failures', id)
             \/ /\ trace' = Append(trace, [op |-> "success", id |-> id])
                /\ Key(id) \notin DOMAIN failures']_vars

C2_Witness ==
    \E id \in Ids :
        /\ HasEntry(id) /\ EntryOf(id).excluded
        /\ EntryOf(id).count > TRAILER_MAX_ATTEMPTS

-----------------------------------------------------------------------------
(* Properties of SpecRun *)

\* folder f was processed by this step
Stepped(f) == hist'[f].n = hist[f].n + 1

\* the folder-name year is below the cutoff
Pre2000(n) == n.year # 0 /\ n.year < EXCLUSION_YEAR_CUTOFF

\* C3: when _handle_trailer runs for a folder without trailer file, with a
\* folder-name year below 2000 and an excluded ledger entry for its
\* identifier, acquisition (search and download) is not invoked and the
\* ledger is left unchanged.
C3_LedgerGatesSearch ==
    [][\A f \in Folders :
          ( /\ Stepped(f)
            /\ "trailer" \in hist'[f].stages
            /\ ~trailer[f]
            /\ Pre2000(name'[f])
            /\ _is_trailer_excluded(failures, name'[f].id) )
          => /\ "attempt" \notin hist'[f].stages
             /\ failures' = failures
             /\ trailer' = trailer]_vars

C3_Witness ==
    \E f \in Folders :
        /\ hist[f].n = 1
        /\ hist[f].stages = {"files", "trailer"}
        /\ ~trailer[f]
        /\ Pre2000(name[f])
        /\ _is_trailer_excluded(failures, name[f].id)

\* C4 (as claimed): a folder with year below 2000 whose acquisition never
\* succeeds is attempted, in a run that reaches its trailer stage, exactly
\* when that run is one of the first TRAILER_MAX_ATTEMPTS runs.
C4_AttemptedInFirstTwoRuns ==
    \A f \in Folders :
        ( /\ hist[f].n = 1
          /\ "trailer" \in hist[f].stages
          /\ ~trailer[f]
          /\ Pre2000(name[f]) )
        => ("attempt" \in hist[f].stages <=> run <= TRAILER_MAX_ATTEMPTS)

\* C5: for a folder whose year is 2000 or later, or absent, _handle_trailer
\* attempts acquisition whenever the trailer file is absent, whatever the
\* ledger holds, and a failed attempt leaves the ledger unchanged.
C5_RecentAlwaysRetried ==
    [][\A f \in Folders :
          ( /\ Stepped(f)
            /\ "trailer" \in hist'[f].stages
            /\ ~trailer[f]
            /\ ~Pre2000(name'[f]) )
          => /\ "attempt" \in hist'[f].stages
             /\ (~trailer'[f] => failures' = failures)]_vars

C5_Witness ==
    \E f \in Folders :
        /\ hist[f].n = 1
        /\ "attempt" \in hist[f].stages
        /\ ~trailer[f]
        /\ ~Pre2000(name[f])
        /\ _is_trailer_excluded(failures, name[f].id)

\* C6: an exception in one folder's pipeline does not abort the run: no
\* folder is processed twice, at the end of the loops every folder of both
\* lists has been processed exactly once, and the error count is the
\* number of folders whose pipeline raised.
C6_FailureIsolation ==
    /\ \A f \in Folders : hist[f].n <= 1
    /\ (\E f \in Folders : hist[f].raised) => pc \in {"movies", "shows", "finish"}
    /\ pc = "finish" =>
          /\ \A f \in Folders : hist[f].n = 1
          /\ errors = Cardinality({f \in Folders : hist[f].raised})

C6_Witness ==
    /\ pc = "finish"
    /\ hist["m1"].raised
    /\ ~hist["m2"].raised /\ "trailer" \in hist["m2"].stages
    /\ hist["s1"].n = 1
    /\ errors = 1

\* C7 (as claimed): every run calls the ledger write exactly once, after
\* all movie and show folders have been processed.
C7_LedgerWrittenOncePerRun ==
    /\ saves <= 1
    /\ saves = 1 => \A f \in Folders : hist[f].n = 1
    /\ pc \in {"finish", "aborted"} => saves = 1

\* C8 (as claimed): a corrupt or unreadable persisted ledger loads as the
\* empty ledger and never aborts the run.
C8_CorruptLedgerNeverAborts ==
    /\ pc # "aborted"
    /\ (pc = "movies" /\ ledgerFile.kind # "json" /\ \A f \in Folders : hist[f].n = 0)
          => failures = EmptyLedger

\* C9: a folder is renamed at most once per run and never onto a name that
\* exists; when the target name exists, the folder keeps its name and no
\* later stage (files, metadata, trailer, ledger update) runs for it.
C9_TagCollisionLeavesFolder ==
    [][\A f \in Folders :
          Stepped(f) =>
            /\ hist'[f].renames <= 1
            /\ (name'[f] # name[f] => hist'[f].renames = 1)
            /\ \A g \in SameDir(f) \ {f} : name'[g] # name'[f]
            /\ hist'[f].tag = "collision" =>
                  /\ name' = name
                  /\ hist'[f].stages = {}
                  /\ ~hist'[f].raised
                  /\ failures' = failures
                  /\ trailer' = trailer]_vars

C9_Witness ==
    \E f \in Folders :
        /\ hist[f].n = 1
        /\ hist[f].tag = "collision"
        /\ hist[f].renames = 0
        /\ name[f].id = 0
        /\ hist[f].stages = {}

-----------------------------------------------------------------------------
(* The title-match validator of tmdb_client.py.  Text is a sequence of     *)
(* one-character strings.                                                  *)

\* unicodedata.normalize('NFKD', c), combining marks dropped, .lower()
FoldChar(c) ==
    CASE c = "A" -> "a"
      [] c = "E" -> "e"
      [] c = "é" -> "e"
      [] OTHER -> c

RECURSIVE _normalize_for_compare(_)
_normalize_for_compare(text) ==
    IF text = << >> THEN << >>
    ELSE <<FoldChar(Head(text))>> \o _normalize_for_compare(Tail(text))

\* the characters [a-z0-9] that occur in the model's texts
WordChars == {"a", "e", "0", "1", "2", "4"}

\* re.findall(r'[a-z0-9]+', text) as a set: the maximal runs of word characters
RECURSIVE FindWords(_, _)
FindWords(text, cur) ==
    IF text = << >> THEN (IF cur = << >> THEN {} ELSE {cur})
    ELSE IF Head(text) \in WordChars THEN FindWords(Tail(text), Append(cur, Head(text)))
    ELSE (IF cur = << >> THEN {} ELSE {cur}) \cup FindWords(Tail(text), << >>)

_title_words(text) == FindWords(_normalize_for_compare(text), << >>)

\* result.get(date_key, '') or '', then result_date[:4] if len(result_date) >= 4 else ''
ResultYear(r) ==
    LET result_date == IF r.has_date THEN r.date ELSE << >>
    IN IF Len(result_date) >= 4 THEN SubSeq(result_date, 1, 4) ELSE << >>

\* the for loop over results from position i: the position of the first
\* result that is not skipped by a `continue`, 0 when the loop ends
RECURSIVE MatchFrom(_, _, _, _)
MatchFrom(rs, i, query_words, qyear) ==
    IF i > Len(rs) THEN 0
    ELSE IF qyear # << >> /\ ResultYear(rs[i]) # qyear
         THEN MatchFrom(rs, i + 1, query_words, qyear)
    ELSE IF query_words # {} /\ ~(query_words \subseteq _title_words(rs[i].title))
         THEN MatchFrom(rs, i + 1, query_words, qyear)
    ELSE i

\* mutant: the year of the results is not checked
FindBestMatchIgnoresYear(rs, qtitle, qyear) ==
    IF rs = << >> THEN [called |-> TRUE, found |-> FALSE, index |-> 0]
    ELSE LET m == MatchFrom(rs, 1, _title_words(qtitle), << >>)
         IN [called |-> TRUE, found |-> TRUE, index |-> IF m # 0 THEN m ELSE 1]

\* mutant: no fallback to the first result when every result is skipped
FindBestMatchNoFallback(rs, qtitle, qyear) ==
    IF rs = << >> THEN [called |-> TRUE, found |-> FALSE, index |-> 0]
    ELSE LET m == MatchFrom(rs, 1, _title_words(qtitle), qyear)
         IN [called |-> TRUE, found |-> m # 0, index |-> m]

\* _find_best_match: the position of the record returned, found FALSE for None
_find_best_match(rs, qtitle, qyear) ==
    IF rs = << >> THEN [called |-> TRUE, found |-> FALSE, index |-> 0]
    ELSE LET m == MatchFrom(rs, 1, _title_words(qtitle), qyear)
         IN [called |-> TRUE, found |-> TRUE, index |-> IF m # 0 THEN m ELSE 1]

\* inputs: result titles and dates, query titles and years
Y2021 == <<"2", "0", "2", "1">>
ResultTitles == {<<"A">>, <<"é", "-", "a">>, <<"a", "e">>}
ResultDates == {<<"2", "0", "2">>, Y2021 \o <<"-", "1">>, <<"2", "0", "2", "4">>}
ResultPool == {[title |-> t, has_date |-> TRUE, date |-> d] : t \in ResultTitles, d \in ResultDates}
              \cup {[title |-> t, has_date |-> FALSE, date |-> << >>] : t \in ResultTitles}
QueryTitles == {<<"a">>, <<"E", " ", "a">>, << >>}
QueryYears == {<< >>, Y2021}

InitMatch ==
    /\ results \in UNION {[1..n -> ResultPool] : n \in 0..MaxResults}
    /\ query_title \in QueryTitles
    /\ query_year \in QueryYears
    /\ matched = [called |-> FALSE, found |-> FALSE, index |-> 0]
    /\ failures = EmptyLedger
    /\ LedgerParked
    /\ RunParked
    /\ TrailerParked
    /\ StateParked
    /\ SeasonParked

FindBestMatch ==
    /\ ~matched.called
    /\ matched' = _find_best_match(results, query_title, query_year)
    /\ UNCHANGED <<failures, results, query_title, query_year, ledgerVars, runVars,
                 trailerVars, stateVars, seasonVars>>

NextMatch == FindBestMatch

SpecMatch == InitMatch /\ [][NextMatch]_vars

\* result i passes both checks, in the claim's words
PassesBoth(i) ==
    /\ query_year # << >> =>
          /\ results[i].has_date
          /\ Len(results[i].date) >= 4
          /\ SubSeq(results[i].date, 1, 4) = query_year
    /\ _title_words(query_title) \subseteq _title_words(results[i].title)

\* C10: for a non-empty result list, if some result passes both checks
\* (year prefix equal to the query year when one is supplied, query words a
\* subset of the result's words), _find_best_match returns the earliest
\* such result in the given order.
C10_FirstMatchWins ==
    ( /\ matched.called
      /\ results # << >>
      /\ \E i \in 1..Len(results) : PassesBoth(i) )
    => /\ matched.found
       /\ PassesBoth(matched.index)
       /\ \A j \in 1..(matched.index - 1) : ~PassesBoth(j)

C10_Witness ==
    /\ matched.called
    /\ Len(results) = 3
    /\ query_year # << >>
    /\ ~PassesBoth(1) /\ PassesBoth(2) /\ PassesBoth(3)
    /\ ~results[1].has_date
    /\ matched.index = 2

\* C11: when no result passes both checks, _find_best_match returns the
\* first result of the list; it returns nothing exactly when the list is
\* empty, and a returned record is an element of the list.
C11_FallbackToFirst ==
    matched.called =>
       /\ (~matched.found <=> results = << >>)
       /\ matched.found => matched.index \in 1..Len(results)
       /\ ( /\ results # << >>
            /\ \A i \in 1..Len(results) : ~PassesBoth(i) )
          => matched.found /\ matched.index = 1

C11_Witness ==
    /\ matched.called
    /\ Len(results) >= 2
    /\ \A i \in 1..Len(results) : ~PassesBoth(i)
    /\ query_year # << >>
    /\ matched.found
    /\ matched.index = 1

-----------------------------------------------------------------------------
(* The validated trailer search of trailer_manager.py.  Text is a sequence *)
(* of one-character strings, as above.                                     *)

MIN_SCORE == 5
EarlyStopScore == 12

Upper == <<"A", "B", "C", "D", "E", "F", "G", "H", "I", "J", "K", "L", "M", "N", "O", "P", "Q", "R", "S", "T", "U", "V", "W", "X", "Y", "Z">>
Lower == <<"a", "b", "c", "d", "e", "f", "g", "h", "i", "j", "k", "l", "m", "n", "o", "p", "q", "r", "s", "t", "u", "v", "w", "x", "y", "z">>
Digits == <<"0", "1", "2", "3", "4", "5", "6", "7", "8", "9">>

\* str.lower() on the ASCII capitals
ToLower == [c \in {Upper[i] : i \in 1..26} |-> Lower[CHOOSE i \in 1..26 : Upper[i] = c]]

\* unicodedata.normalize('NFKD', c), combining marks dropped, .lower()
NormChar(c) ==
    IF c \in DOMAIN ToLower THEN ToLower[c]
    ELSE CASE c = "é" -> "e"
           [] c = "â" -> "a"
           [] OTHER -> c

RECURSIVE _normalize(_)
_normalize(text) ==
    IF text = << >> THEN << >>
    ELSE <<NormChar(Head(text))>> \o _normalize(Tail(text))

\* the characters of the class [a-z0-9]
AlNum == {Lower[i] : i \in 1..26} \cup {Digits[i] : i \in 1..10}

\* re.findall(r'[a-z0-9]+', text) as a set
RECURSIVE FindAll(_, _)
FindAll(text, cur) ==
    IF text = << >> THEN (IF cur = << >> THEN {} ELSE {cur})
    ELSE IF Head(text) \in AlNum THEN FindAll(Tail(text), Append(cur, Head(text)))
    ELSE (IF cur = << >> THEN {} ELSE {cur}) \cup FindAll(Tail(text), << >>)

_extract_words(text) == FindAll(_normalize(text), << >>)

\* Python's `pat in text` for strings
Contains(text, pat) ==
    \E i \in 1..(Len(text) - Len(pat) + 1) : SubSeq(text, i, i + Len(pat) - 1) = pat

\* str(n) for n >= 0
RECURSIVE DecimalStr(_)
DecimalStr(n) ==
    IF n < 10 THEN <<Digits[n + 1]>>
    ELSE DecimalStr(n \div 10) \o <<Digits[(n % 10) + 1]>>

\* f'{n:02d}' for n >= 0
Pad2(n) == IF n < 10 THEN <<"0">> \o DecimalStr(n) ELSE DecimalStr(n)

REJECT_KEYWORDS == {
    <<"i", "n", "t", "e", "r", "v", "i", "e", "w">>,
    <<"i", "n", "t", "e", "r", "v", "i", "u">>,
    <<"r", "e", "c", "a", "p">>,
    <<"r", "e", "v", "i", "e", "w">>,
    <<"r", "e", "a", "c", "t", "i", "o", "n">>,
    <<"e", "x", "p", "l", "a", "i", "n", "e", "d">>,
    <<"b", "r", "e", "a", "k", "d", "o", "w", "n">>,
    <<"b", "e", "h", "i", "n", "d", " ", "t", "h", "e", " ", "s", "c", "e", "n", "e", "s">>,
    <<"m", "a", "k", "i", "n", "g", " ", "o", "f">>,
    <<"f", "u", "l", "l", " ", "m", "o", "v", "i", "e">>,
    <<"f", "u", "l", "l", " ", "e", "p", "i", "s", "o", "d", "e">>,
    <<"r", "e", "z", "u", "m", "a", "t">>,
    <<"e", "p", "i", "s", "o", "d", " ", "c", "o", "m", "p", "l", "e", "t">>
}

W_trailer == <<"t", "r", "a", "i", "l", "e", "r">>
W_official == <<"o", "f", "f", "i", "c", "i", "a", "l">>
W_oficial == <<"o", "f", "i", "c", "i", "a", "l">>
W_red == <<"r", "e", "d">>
W_band == <<"b", "a", "n", "d">>

\* the list season_pats built for season number n
season_pats(n) ==
    { <<"s", "e", "a", "s", "o", "n", " ">> \o DecimalStr(n),
      <<"s", "e", "z", "o", "n", " ">> \o DecimalStr(n),
      <<"s", "e", "z", "o", "n", "u", "l", " ">> \o DecimalStr(n),
      <<"s", "e", "z", " ">> \o DecimalStr(n),
      <<"s">> \o Pad2(n),
      <<"s">> \o DecimalStr(n) \o <<" ">>,
      <<"s", "e", "r", "i", "e", "s", " ">> \o DecimalStr(n),
      <<"s", "e", "r", "i", "a", " ">> \o DecimalStr(n) }

\* mutant: the denylist is matched against the tokens instead of the text
HardRejectedTokenDenylist(cand, title_words, season, snum) ==
    LET norm_title == _normalize(cand.title)
        video_words == _extract_words(cand.title)
    IN \/ W_trailer \notin video_words
       \/ ~(title_words \subseteq video_words)
       \/ \E kw \in REJECT_KEYWORDS : kw \in video_words
       \/ /\ season /\ snum > 0
          /\ ~\E pat \in season_pats(snum) : Contains(norm_title, pat)

\* the hard requirements of _score_candidate: TRUE when the candidate is
\* rejected with -1
HardRejected(cand, title_words, season, snum) ==
    LET norm_title == _normalize(cand.title)
        video_words == _extract_words(cand.title)
    IN \/ W_trailer \notin video_words
       \/ ~(title_words \subseteq video_words)
       \/ \E kw \in REJECT_KEYWORDS : Contains(norm_title, kw)
       \/ /\ season /\ snum > 0
          /\ ~\E pat \in season_pats(snum) : Contains(norm_title, pat)

\* mutant: the red band bonus is given for either word
ScoreRedOrBand(cand, title_words, yr, show, season, snum) ==
    LET video_words == _extract_words(cand.title)
        duration == cand.duration
    IN IF HardRejected(cand, title_words, season, snum) THEN -1
       ELSE 5
            + (IF yr # << >> /\ yr \in video_words THEN 3 ELSE 0)
            + (IF cand.channel_is_verified THEN 4 ELSE 0)
            + (IF W_official \in video_words \/ W_oficial \in video_words THEN 3 ELSE 0)
            + (IF W_red \in video_words \/ W_band \in video_words THEN 5 ELSE 0)
            + (IF 30 <= duration /\ duration <= 240 THEN 2
               ELSE IF duration > 600 THEN -3 ELSE 0)
            + (IF Cardinality(video_words) <= 10 THEN 1 ELSE 0)

\* mutant: the bonus for a title of at most 10 tokens is missing
ScoreNoConciseness(cand, title_words, yr, show, season, snum) ==
    LET video_words == _extract_words(cand.title)
        duration == cand.duration
    IN IF HardRejected(cand, title_words, season, snum) THEN -1
       ELSE 5
            + (IF yr # << >> /\ yr \in video_words THEN 3 ELSE 0)
            + (IF cand.channel_is_verified THEN 4 ELSE 0)
            + (IF W_official \in video_words \/ W_oficial \in video_words THEN 3 ELSE 0)
            + (IF W_red \in video_words /\ W_band \in video_words THEN 5 ELSE 0)
            + (IF 30 <= duration /\ duration <= 240 THEN 2
               ELSE IF duration > 600 THEN -3 ELSE 0)

\* mutant: the penalty applies to every duration above 240 seconds
ScoreHarshPenalty(cand, title_words, yr, show, season, snum) ==
    LET video_words == _extract_words(cand.title)
        duration == cand.duration
    IN IF HardRejected(cand, title_words, season, snum) THEN -1
       ELSE 5
            + (IF yr # << >> /\ yr \in video_words THEN 3 ELSE 0)
            + (IF cand.channel_is_verified THEN 4 ELSE 0)
            + (IF W_official \in video_words \/ W_oficial \in video_words THEN 3 ELSE 0)
            + (IF W_red \in video_words /\ W_band \in video_words THEN 5 ELSE 0)
            + (IF 30 <= duration /\ duration <= 240 THEN 2
               ELSE IF duration > 240 THEN -3 ELSE 0)
            + (IF Cardinality(video_words) <= 10 THEN 1 ELSE 0)

\* _score_candidate: -1 for a rejected candidate, else the additive score
_score_candidate(cand, title_words, yr, show, season, snum) ==
    LET video_words == _extract_words(cand.title)
        duration == cand.duration
    IN IF HardRejected(cand, title_words, season, snum) THEN -1
       ELSE 5
            + (IF yr # << >> /\ yr \in video_words THEN 3 ELSE 0)
            + (IF cand.channel_is_verified THEN 4 ELSE 0)
            + (IF W_official \in video_words \/ W_oficial \in video_words THEN 3 ELSE 0)
            + (IF W_red \in video_words /\ W_band \in video_words THEN 5 ELSE 0)
            + (IF 30 <= duration /\ duration <= 240 THEN 2
               ELSE IF duration > 600 THEN -3 ELSE 0)
            + (IF Cardinality(video_words) <= 10 THEN 1 ELSE 0)

NoBest == [found |-> FALSE, index |-> 0, score |-> MIN_SCORE - 1]

\* the for loop of _pick_best from position i with the best so far b
RECURSIVE PickFrom(_, _, _, _, _, _, _, _)
PickFrom(cands, i, b, title_words, yr, show, season, snum) ==
    IF i > Len(cands) THEN b
    ELSE LET sc == _score_candidate(cands[i], title_words, yr, show, season, snum)
         IN PickFrom(cands, i + 1,
                     IF sc > b.score THEN [found |-> TRUE, index |-> i, score |-> sc]
                     ELSE b,
                     title_words, yr, show, season, snum)

\* mutant: a later candidate with an equal score replaces the best so far
RECURSIVE PickFromLastTie(_, _, _, _, _, _, _, _)
PickFromLastTie(cands, i, b, title_words, yr, show, season, snum) ==
    IF i > Len(cands) THEN b
    ELSE LET sc == _score_candidate(cands[i], title_words, yr, show, season, snum)
         IN PickFromLastTie(cands, i + 1,
                     IF sc > b.score \/ (b.found /\ sc = b.score)
                     THEN [found |-> TRUE, index |-> i, score |-> sc]
                     ELSE b,
                     title_words, yr, show, season, snum)

PickBestLastTie(cands, title_words, yr, show, season, snum) ==
    PickFromLastTie(cands, 1, NoBest, title_words, yr, show, season, snum)

\* _pick_best: the position and score of the candidate returned, found FALSE for None
_pick_best(cands, title_words, yr, show, season, snum) ==
    PickFrom(cands, 1, NoBest, title_words, yr, show, season, snum)

-----------------------------------------------------------------------------
(* SpecScore: the scorer and _pick_best applied to one candidate.          *)

\* the candidate titles: every selection of these pieces, in this order,
\* joined by single spaces
Pieces == <<
    <<"M", "o", "v", "i", "e">>,
    <<"X">>,
    <<"2", "0", "2", "0">>,
    <<"O", "f", "f", "i", "c", "i", "a", "l">>,
    <<"R", "e", "d", " ", "B", "a", "n", "d">>,
    <<"S", "e", "a", "s", "o", "n", " ", "3">>,
    <<"T", "r", "a", "i", "l", "e", "r">>,
    <<"I", "n", "t", "e", "r", "v", "i", "e", "w">>,
    <<"P", "r", "e", "v", "i", "e", "w">>,
    <<"a", " ", "b", " ", "c", " ", "d", " ", "e", " ", "f", " ", "g", " ", "h">>
>>

RECURSIVE JoinFrom(_, _)
JoinFrom(S, i) ==
    IF i > Len(Pieces) THEN << >>
    ELSE IF i \notin S THEN JoinFrom(S, i + 1)
    ELSE LET rest == JoinFrom(S, i + 1)
         IN IF rest = << >> THEN Pieces[i] ELSE Pieces[i] \o <<" ">> \o rest

\* titles in which a bonus word is alone, misspelt or inside a longer token
ExtraTitles == {
    <<"M", "o", "v", "i", "e", " ", "X", " ", "R", "e", "d", " ", "T", "r", "a", "i", "l", "e", "r">>,
    <<"M", "o", "v", "i", "e", " ", "X", " ", "B", "a", "n", "d", " ", "T", "r", "a", "i", "l", "e", "r">>,
    <<"M", "o", "v", "i", "e", " ", "X", " ", "O", "f", "i", "c", "i", "a", "l", " ", "T", "r", "a", "i", "l", "e", "r">>,
    <<"M", "o", "v", "i", "e", " ", "X", " ", "2", "0", "2", "0", "1", " ", "T", "r", "a", "i", "l", "e", "r">> }

Titles == {JoinFrom(S, 1) : S \in SUBSET (1..Len(Pieces))} \cup ExtraTitles
Durations == {0, 30, 120, 240, 600, 601}
T_MovieX == <<"M", "o", "v", "i", "e", " ", "X">>
Y2020 == <<"2", "0", "2", "0">>

\* the ways the search calls the scorer: a movie with or without a year
\* (download_trailer), a season with year '' (_download_season_trailers)
ScoreContexts ==
    {[yr |-> y, season |-> FALSE, snum |-> 0] : y \in {<< >>, Y2020}}
    \cup {[yr |-> << >>, season |-> TRUE, snum |-> n] : n \in {0, 3}}

\* ref_title = original_title if original_title else en_title
RefTitle == IF original_title # << >> THEN original_title ELSE en_title

InitScore ==
    /\ candidate \in [id : {"v1"}, title : Titles, duration : Durations,
                      channel_is_verified : BOOLEAN]
    /\ original_title = << >>
    /\ en_title = T_MovieX
    /\ \E c \in ScoreContexts :
          /\ search_year = c.yr
          /\ is_season = c.season
          /\ season_num = c.snum
          /\ is_show = c.season
    /\ score = 0 /\ best = NoBest /\ tpc = "score"
    /\ queries = << >> /\ qi = 0 /\ seen_ids = {} /\ all_candidates = << >>
    /\ issued = << >> /\ outcomes = << >>
    /\ ret = << >>
    /\ failures = EmptyLedger
    /\ LedgerParked
    /\ RunParked
    /\ MatchParked
    /\ StateParked
    /\ SeasonParked

ScoreCandidate ==
    /\ tpc = "score"
    /\ score' = _score_candidate(candidate, _extract_words(RefTitle), search_year,
                                 is_show, is_season, season_num)
    /\ tpc' = "pick"
    /\ UNCHANGED <<failures, ledgerVars, runVars, matchVars, stateVars, seasonVars,
                   argVars, candidate,
                   best, queries, qi, seen_ids, all_candidates, issued, outcomes,
                   ret>>

PickBest ==
    /\ tpc = "pick"
    /\ best' = _pick_best(<<candidate>>, _extract_words(RefTitle), search_year,
                          is_show, is_season, season_num)
    /\ tpc' = "done"
    /\ UNCHANGED <<failures, ledgerVars, runVars, matchVars, stateVars, seasonVars,
                   argVars, candidate,
                   score, queries, qi, seen_ids, all_candidates, issued, outcomes,
                   ret>>

NextScore == ScoreCandidate \/ PickBest

SpecScore == InitScore /\ [][NextScore]_vars

\* C12: a candidate is rejected, and not returned by _pick_best, whenever
\* its tokenized title lacks "trailer", or the title words are not all
\* among its tokens, or its normalized title contains a denylisted
\* substring, whatever its other fields are.
C12_HardRejection ==
    ( \/ W_trailer \notin _extract_words(candidate.title)
      \/ ~(_extract_words(RefTitle) \subseteq _extract_words(candidate.title))
      \/ \E kw \in REJECT_KEYWORDS : Contains(_normalize(candidate.title), kw) )
    => /\ tpc \in {"pick", "done"} => score = -1
       /\ tpc = "done" => ~best.found

C12_Witness ==
    /\ tpc = "done"
    /\ W_trailer \in _extract_words(candidate.title)
    /\ _extract_words(RefTitle) \subseteq _extract_words(candidate.title)
    /\ candidate.channel_is_verified
    /\ W_official \in _extract_words(candidate.title)
    /\ \E kw \in REJECT_KEYWORDS : Contains(_normalize(candidate.title), kw)
    /\ score = -1
    /\ ~best.found

\* the candidate passes the hard checks (a)-(c), in the claims' words
PassesABC ==
    /\ W_trailer \in _extract_words(candidate.title)
    /\ _extract_words(RefTitle) \subseteq _extract_words(candidate.title)
    /\ ~\E kw \in REJECT_KEYWORDS : Contains(_normalize(candidate.title), kw)

\* the normalized title contains a season-reference phrase for season_num
MentionsSeason ==
    \E pat \in season_pats(season_num) : Contains(_normalize(candidate.title), pat)

\* C13 (as claimed): a candidate scored for a specific season, 0 included,
\* whose normalized title contains none of the season-reference phrases for
\* that number is rejected.
C13_SeasonRejection ==
    (tpc \in {"pick", "done"} /\ is_season /\ ~MentionsSeason) => score = -1

\* C14 (as claimed): every candidate that passes all hard filters scores at
\* least the acceptance floor and is returned by _pick_best, and every
\* non-rejected score is non-negative.
C14_PassingIsEligible ==
    tpc = "done" =>
       /\ (PassesABC /\ (is_season => MentionsSeason))
             => score >= MIN_SCORE /\ best.found
       /\ score # -1 => score >= 0

\* C14 (amended): a candidate that passes all hard filters scores at least
\* 2; when its duration is at most 600 seconds it scores at least the
\* acceptance floor and is returned by _pick_best; with a longer duration
\* it is returned exactly when its score reaches the floor; every
\* non-rejected score is non-negative.
C14_EligibleUnlessLong ==
    (tpc = "done" /\ PassesABC /\ (is_season /\ season_num > 0 => MentionsSeason))
    => /\ score >= 2
       /\ candidate.duration <= 600 => score >= MIN_SCORE
       /\ best.found <=> score >= MIN_SCORE
       /\ best.found => best.score = score

C14_Witness ==
    /\ tpc = "done"
    /\ PassesABC
    /\ candidate.duration > 600
    /\ score = 2
    /\ ~best.found

T_WorkedExample == <<"M", "o", "v", "i", "e", " ", "X", " ", "2", "0", "2", "0", " ", "O", "f", "f", "i", "c", "i", "a", "l", " ", "T", "r", "a", "i", "l", "e", "r">>

\* the worked example: "Movie X Official Trailer" with the year token
\* present, verified channel, 120 seconds, title words {movie, x}, year 2020
WorkedExample ==
    /\ tpc \in {"pick", "done"}
    /\ candidate.title = T_WorkedExample
    /\ candidate.channel_is_verified
    /\ candidate.duration = 120
    /\ _extract_words(RefTitle) = {<<"m", "o", "v", "i", "e">>, <<"x">>}
    /\ search_year = Y2020
    /\ ~is_season

\* C15 (as claimed): the worked example scores 17.
C15_WorkedExample17 == WorkedExample => score = 17

\* C15 (amended): the worked example scores 18 = 5 (base) + 3 (year)
\* + 4 (verified) + 3 (official) + 2 (duration) + 1 (at most 10 tokens).
C15_WorkedExample18 == WorkedExample => score = 5 + 3 + 4 + 3 + 2 + 1

C15_Witness == WorkedExample /\ score = 18

-----------------------------------------------------------------------------
(* SpecQuery: the query builder.                                           *)

S_official_trailer == <<" ", "o", "f", "f", "i", "c", "i", "a", "l", " ", "t", "r", "a", "i", "l", "e", "r">>
S_trailer == <<" ", "t", "r", "a", "i", "l", "e", "r">>
S_season == <<" ", "s", "e", "a", "s", "o", "n", " ">>
S_tv_series == <<"t", "v", " ", "s", "e", "r", "i", "e", "s">>
S_movie == <<"m", "o", "v", "i", "e">>
SP == <<" ">>

\* mutant: only the first colon is removed
StripFirstColon(text) ==
    IF \E i \in 1..Len(text) : text[i] = ":"
    THEN LET k == CHOOSE i \in 1..Len(text) :
                     text[i] = ":" /\ \A j \in 1..(i - 1) : text[j] # ":"
         IN SubSeq(text, 1, k - 1) \o SubSeq(text, k + 1, Len(text))
    ELSE text

\* text.replace(':', '')
StripColons(text) == SelectSeq(text, LAMBDA c : c # ":")

\* mutant: the titles are compared before the colons are removed
BuildQueriesRawCompare(original, en, yr, show, season, snum) ==
    LET en_t == StripColons(en)
        orig_t == IF original # << >> THEN StripColons(original) ELSE original
        category == IF show THEN S_tv_series ELSE S_movie
        sn == DecimalStr(snum)
        differs == original # << >> /\ original # en
    IN IF season
       THEN (IF differs
             THEN <<orig_t \o S_season \o sn \o S_official_trailer>> ELSE << >>)
            \o <<en_t \o S_season \o sn \o S_official_trailer>>
            \o (IF yr # << >>
                THEN <<en_t \o S_season \o sn \o SP \o yr \o S_trailer>> ELSE << >>)
       ELSE (IF yr # << >>
             THEN <<en_t \o SP \o yr \o S_official_trailer,
                    en_t \o SP \o yr \o SP \o category \o S_trailer>>
             ELSE << >>)
            \o <<en_t \o S_official_trailer>>
            \o (IF differs
                THEN (IF yr # << >>
                      THEN <<orig_t \o SP \o yr \o S_official_trailer>> ELSE << >>)
                     \o <<orig_t \o S_trailer>>
                ELSE << >>)

\* _build_queries: the list of query strings
_build_queries(original, en, yr, show, season, snum) ==
    LET en_t == StripColons(en)
        orig_t == IF original # << >> THEN StripColons(original) ELSE original
        category == IF show THEN S_tv_series ELSE S_movie
        sn == DecimalStr(snum)
        differs == orig_t # << >> /\ orig_t # en_t
    IN IF season
       THEN (IF differs
             THEN <<orig_t \o S_season \o sn \o S_official_trailer>> ELSE << >>)
            \o <<en_t \o S_season \o sn \o S_official_trailer>>
            \o (IF yr # << >>
                THEN <<en_t \o S_season \o sn \o SP \o yr \o S_trailer>> ELSE << >>)
       ELSE (IF yr # << >>
             THEN <<en_t \o SP \o yr \o S_official_trailer,
                    en_t \o SP \o yr \o SP \o category \o S_trailer>>
             ELSE << >>)
            \o <<en_t \o S_official_trailer>>
            \o (IF differs
                THEN (IF yr # << >>
                      THEN <<orig_t \o SP \o yr \o S_official_trailer>> ELSE << >>)
                     \o <<orig_t \o S_trailer>>
                ELSE << >>)

Y2022 == <<"2", "0", "2", "2">>
QueryTitlePool == {<< >>, <<"A">>, <<"A", ":">>, <<":">>, <<"B", ":", "c", ":">>}
QuerySeasons == {0, 2, 10}

InitQuery ==
    /\ original_title \in QueryTitlePool
    /\ en_title \in QueryTitlePool
    /\ search_year \in {<< >>, Y2022}
    /\ is_show \in BOOLEAN
    /\ \/ is_season = FALSE /\ season_num = 0
       \/ is_season = TRUE /\ season_num \in QuerySeasons /\ is_show = TRUE
    /\ queries = << >> /\ tpc = "build"
    /\ candidate = << >> /\ score = 0 /\ best = NoBest
    /\ qi = 0 /\ seen_ids = {} /\ all_candidates = << >>
    /\ issued = << >> /\ outcomes = << >>
    /\ ret = << >>
    /\ failures = EmptyLedger
    /\ LedgerParked
    /\ RunParked
    /\ MatchParked
    /\ StateParked
    /\ SeasonParked

BuildQueries ==
    /\ tpc = "build"
    /\ queries' = _build_queries(original_title, en_title, search_year, is_show,
                                 is_season, season_num)
    /\ tpc' = "built"
    /\ UNCHANGED <<failures, ledgerVars, runVars, matchVars, stateVars, seasonVars,
                   argVars, candidate,
                   score, best, qi, seen_ids, all_candidates, issued, outcomes,
                   ret>>

NextQuery == BuildQueries

SpecQuery == InitQuery /\ [][NextQuery]_vars

\* the parts of a query joined by single spaces
RECURSIVE Phrase(_)
Phrase(parts) ==
    IF Len(parts) = 1 THEN parts[1]
    ELSE parts[1] \o <<" ">> \o Phrase(Tail(parts))

K_season == <<"s", "e", "a", "s", "o", "n">>
K_official_trailer == <<"o", "f", "f", "i", "c", "i", "a", "l", " ", "t", "r", "a", "i", "l", "e", "r">>
K_trailer == <<"t", "r", "a", "i", "l", "e", "r">>

\* the list the ordering contract prescribes, given the two title
\* components as embedded, whether the localized queries are due, and the rest
Prescribed(loc, fb, localized_due) ==
    LET yr == search_year
        sn == DecimalStr(season_num)
        cat == IF is_show THEN S_tv_series ELSE S_movie
        If(c, q) == IF c THEN <<q>> ELSE << >>
    IN IF is_season
       THEN If(localized_due, Phrase(<<loc, K_season, sn, K_official_trailer>>))
            \o <<Phrase(<<fb, K_season, sn, K_official_trailer>>)>>
            \o If(yr # << >>, Phrase(<<fb, K_season, sn, yr, K_trailer>>))
       ELSE If(yr # << >>, Phrase(<<fb, yr, K_official_trailer>>))
            \o If(yr # << >>, Phrase(<<fb, yr, cat, K_trailer>>))
            \o <<Phrase(<<fb, K_official_trailer>>)>>
            \o If(localized_due /\ yr # << >>, Phrase(<<loc, yr, K_official_trailer>>))
            \o If(localized_due, Phrase(<<loc, K_trailer>>))

\* C18 (as claimed): _build_queries returns the prescribed list, the
\* localized queries being present exactly when the localized title is
\* non-empty and differs from the fallback title.
C18_OrderingAsGiven ==
    tpc = "built" =>
       queries = Prescribed(StripColons(original_title), StripColons(en_title),
                            original_title # << >> /\ original_title # en_title)

\* C18 (amended): _build_queries returns the prescribed list, the localized
\* queries being present exactly when the localized title with its colons
\* removed is non-empty and differs from the fallback title with its colons
\* removed; with a year present the first movie/show query is
\* "<fallback> <year> official trailer".
C18_OrderingAfterStripping ==
    tpc = "built" =>
       LET loc == StripColons(original_title)
           fb == StripColons(en_title)
       IN /\ queries = Prescribed(loc, fb, loc # << >> /\ loc # fb)
          /\ (~is_season /\ search_year # << >>) =>
                queries[1] = fb \o <<" ">> \o search_year \o S_official_trailer

C18_Witness ==
    /\ tpc = "built"
    /\ original_title = <<"A", ":">>
    /\ en_title = <<"A">>
    /\ search_year = Y2022
    /\ ~is_season
    /\ Len(queries) = 3

\* C19: no query string returned by _build_queries contains a ":".
C19_NoColonInQueries ==
    \A i \in 1..Len(queries) : \A j \in 1..Len(queries[i]) : queries[i][j] # ":"

C19_Witness ==
    /\ tpc = "built"
    /\ original_title = <<"B", ":", "c", ":">>
    /\ en_title = <<"A", ":">>
    /\ Len(queries) >= 4

-----------------------------------------------------------------------------
(* SpecSearch: _search_youtube_validated.  The video-search collaborator   *)
(* (_yt_search_json) answers each query with any short list of records; a  *)
(* timeout or error is the empty list.  The URL returned is represented    *)
(* by the identifier it embeds.                                            *)

MaxHits == 2        \* records returned for one query

T_XTrailer == <<"X", " ", "T", "r", "a", "i", "l", "e", "r">>
T_XOfficialTrailer == <<"X", " ", "O", "f", "f", "i", "c", "i", "a", "l", " ", "T", "r", "a", "i", "l", "e", "r">>

Cand(i, t, d, v) == [id |-> i, title |-> t, duration |-> d, channel_is_verified |-> v]

CandPool ==
    { Cand("v1", T_XTrailer, 0, FALSE),
      Cand("v2", T_XTrailer, 0, FALSE),
      Cand("v3", T_XOfficialTrailer, 120, TRUE),
      Cand("v1", T_XOfficialTrailer, 120, TRUE),
      Cand("", T_XOfficialTrailer, 120, TRUE),
      Cand("v4", T_XTrailer, 601, FALSE) }

HitLists == UNION {[1..n -> CandPool] : n \in 0..MaxHits}

SearchTitlePairs ==
    { <<<< >>, << >>>>, <<<< >>, <<"X">>>>, <<<<"é">>, <<"X">>>>, <<<<"!">>, <<"X">>>> }

\* how one yt-dlp call can end: output lines, a timeout, any other error
SearchOutcomes ==
    {[kind |-> "ok", hits |-> h] : h \in HitLists}
        \cup {[kind |-> k, hits |-> << >>] : k \in {"timeout", "error"}}

YtSearchPropagates(out) ==
    [raised |-> out.kind # "ok", items |-> out.hits]

\* _yt_search_json: the parsed items; both except clauses return []
_yt_search_json(out) ==
    [raised |-> FALSE, items |-> IF out.kind = "ok" THEN out.hits ELSE << >>]

NoReturn == [found |-> FALSE, id |-> "", at |-> "none"]

RECURSIVE MergeResultsNoSeenCheck(_, _, _)
MergeResultsNoSeenCheck(rs, seen, acc) ==
    IF rs = << >> THEN [seen |-> seen, acc |-> acc]
    ELSE LET vid == Head(rs).id
         IN IF vid # ""
            THEN MergeResultsNoSeenCheck(Tail(rs), seen \cup {vid},
                                         Append(acc, Head(rs)))
            ELSE MergeResultsNoSeenCheck(Tail(rs), seen, acc)

\* the for loop over the results of one query: records with a new,
\* non-empty id are appended to the accumulator
RECURSIVE MergeResults(_, _, _)
MergeResults(rs, seen, acc) ==
    IF rs = << >> THEN [seen |-> seen, acc |-> acc]
    ELSE LET vid == Head(rs).id
         IN IF vid # "" /\ vid \notin seen
            THEN MergeResults(Tail(rs), seen \cup {vid}, Append(acc, Head(rs)))
            ELSE MergeResults(Tail(rs), seen, acc)

\* mutant: the search goes on whatever the titles are
GuardAlwaysProceeds(original, en) == TRUE

\* mutant: a title without words gives way to the other title
GuardFallsBackOnEmptyWords(original, en) ==
    _extract_words(original) # {} \/ _extract_words(en) # {}

\* the two early returns before the queries: ref_title and title_words non-empty
SearchGuard(original, en) ==
    LET ref_title == IF original # << >> THEN original ELSE en
    IN ref_title # << >> /\ _extract_words(ref_title) # {}

\* mutant: the loop never stops early
NeverEarlyExit(b) == FALSE

\* if best and best['score'] >= 12
EarlyExit(b) == b.found /\ b.score >= EarlyStopScore

InitSearch ==
    /\ \E pr \in SearchTitlePairs : original_title = pr[1] /\ en_title = pr[2]
    /\ \/ /\ is_season = FALSE /\ season_num = 0 /\ is_show = FALSE
          /\ search_year \in {<< >>, Y2020}
       \/ /\ is_season = TRUE /\ season_num = 2 /\ is_show = TRUE
          /\ search_year = << >>
    /\ queries = << >> /\ tpc = "start"
    /\ qi = 0 /\ seen_ids = {} /\ all_candidates = << >>
    /\ issued = << >> /\ outcomes = << >>
    /\ ret = NoReturn
    /\ candidate = << >> /\ score = 0 /\ best = NoBest
    /\ failures = EmptyLedger
    /\ LedgerParked
    /\ RunParked
    /\ MatchParked
    /\ StateParked
    /\ SeasonParked

SearchStart ==
    /\ tpc = "start"
    /\ IF SearchGuard(original_title, en_title)
       THEN /\ queries' = _build_queries(original_title, en_title, search_year,
                                         is_show, is_season, season_num)
            /\ qi' = 1
            /\ tpc' = "loop"
            /\ ret' = ret
       ELSE /\ ret' = [found |-> FALSE, id |-> "", at |-> "guard"]
            /\ tpc' = "done"
            /\ UNCHANGED <<queries, qi>>
    /\ UNCHANGED <<failures, ledgerVars, runVars, matchVars, stateVars, seasonVars,
                   argVars, candidate,
                   score, best, seen_ids, all_candidates, issued,
                   outcomes>>

IssueQuery ==
    /\ tpc = "loop"
    /\ qi <= Len(queries)
    /\ \E out \in SearchOutcomes :
          LET res == _yt_search_json(out)
              m == MergeResults(res.items, seen_ids, all_candidates)
              b == _pick_best(m.acc, _extract_words(RefTitle), search_year,
                              is_show, is_season, season_num)
          IN /\ issued' = Append(issued, queries[qi])
             /\ outcomes' = [kind |-> out.kind, raised |-> res.raised,
                             before |-> IF out.kind = "ok" THEN << >>
                                        ELSE all_candidates,
                             dup |-> \E i \in 1..Len(res.items) :
                                        res.items[i].id \in seen_ids]
             /\ IF res.raised
                THEN /\ ret' = [found |-> FALSE, id |-> "", at |-> "raised"]
                     /\ tpc' = "done"
                     /\ UNCHANGED <<seen_ids, all_candidates, qi>>
                ELSE /\ seen_ids' = m.seen
                     /\ all_candidates' = m.acc
                     /\ IF EarlyExit(b)
                        THEN /\ ret' = [found |-> TRUE, id |-> m.acc[b.index].id,
                                        at |-> "early"]
                             /\ tpc' = "done"
                             /\ qi' = qi
                        ELSE /\ qi' = qi + 1
                             /\ UNCHANGED <<ret, tpc>>
    /\ UNCHANGED <<failures, ledgerVars, runVars, matchVars, stateVars, seasonVars,
                   argVars, candidate,
                   score, best, queries>>

FinalPick ==
    /\ tpc = "loop"
    /\ qi > Len(queries)
    /\ LET b == _pick_best(all_candidates, _extract_words(RefTitle), search_year,
                           is_show, is_season, season_num)
       IN ret' = IF b.found
                 THEN [found |-> TRUE, id |-> all_candidates[b.index].id, at |-> "final"]
                 ELSE [found |-> FALSE, id |-> "", at |-> "final"]
    /\ tpc' = "done"
    /\ UNCHANGED <<failures, ledgerVars, runVars, matchVars, stateVars, seasonVars,
                   argVars, candidate,
                   score, best, queries, qi, seen_ids, all_candidates, issued,
                   outcomes>>

NextSearch == SearchStart \/ IssueQuery \/ FinalPick

SpecSearch == InitSearch /\ [][NextSearch]_vars

\* the score of the i-th accumulated candidate
ScoreAt(i) ==
    _score_candidate(all_candidates[i], _extract_words(RefTitle), search_year,
                     is_show, is_season, season_num)

\* the earliest accumulated candidate of maximum score
FirstMax ==
    CHOOSE i \in 1..Len(all_candidates) :
        /\ \A j \in 1..Len(all_candidates) : ScoreAt(j) <= ScoreAt(i)
        /\ \A j \in 1..(i - 1) : ScoreAt(j) < ScoreAt(i)

\* C16: the queries are issued in list order, each at most once; the loop
\* goes on only while no accumulated candidate scores 12 or more; an early
\* exit returns the best-scoring accumulated candidate, whose score is at
\* least 12; and when the loop ends without early exit every query of the
\* list has been issued exactly once.
C16_EarlyExit ==
    /\ Len(issued) <= Len(queries)
    /\ issued = SubSeq(queries, 1, Len(issued))
    /\ tpc = "loop" => \A i \in 1..Len(all_candidates) : ScoreAt(i) < 12
    /\ ret.at = "early" =>
          /\ all_candidates # << >>
          /\ ScoreAt(FirstMax) >= 12
          /\ ret.found /\ ret.id = all_candidates[FirstMax].id
    /\ ret.at = "final" =>
          /\ issued = queries
          /\ \A i \in 1..Len(all_candidates) : ScoreAt(i) < 12

C16_Witness ==
    /\ ret.at = "early"
    /\ Len(issued) = 2
    /\ Len(queries) = 3
    /\ Len(all_candidates) >= 2

C20_EmptyTitlesNoSearch ==
    (original_title = << >> /\ en_title = << >>) =>
       /\ issued = << >>
       /\ tpc # "start" => (tpc = "done" /\ ~ret.found /\ queries = << >>)

C20_Witness ==
    /\ original_title = << >> /\ en_title = << >>
    /\ tpc = "done"
    /\ ret.at = "guard"
    /\ issued = << >>

(***************************************************************************)
(* The processed-file marks of state_manager.py.  A modification time is   *)
(* a number of ticks of half a second, so that differences below, at and   *)
(* above the one-second tolerance all occur.  A path is a video together   *)
(* with the form of its file name: a rename gives the file another path.   *)
(***************************************************************************)
MaxTick == 4
Tolerance == 2                  \* "< 1": one second, in ticks

Videos == {"mv", "ep"}          \* the movie's main video, the show's episode
Ticks == 0..MaxTick
Path(v, form) == <<v, form>>
EmptyIndex == << >>
Abs(n) == IF n < 0 THEN -n ELSE n

\* STATE_FILE on disk: absent, unreadable, or the JSON of an index
NoStateFile == [exists |-> FALSE, ok |-> FALSE, index |-> EmptyIndex]
CorruptStateFile == [exists |-> TRUE, ok |-> FALSE, index |-> EmptyIndex]
StateFileOf(idx) == [exists |-> TRUE, ok |-> TRUE, index |-> idx]

\* StateManager._load_state: the stored index, or the empty default
_load_state(file) ==
    IF file.exists /\ file.ok THEN file.index ELSE EmptyIndex

\* StateManager._save_state: temp file then replace; a failure is swallowed
_save_state(file, idx, ok) == IF ok THEN StateFileOf(idx) ELSE file

IsProcessedInclusive(idx, p, current_mtime) ==
    IF p \in DOMAIN idx
    THEN Abs(current_mtime - idx[p]) <= Tolerance
    ELSE FALSE

\* StateManager.is_processed
is_processed(idx, p, current_mtime) ==
    IF p \in DOMAIN idx
    THEN Abs(current_mtime - idx[p]) < Tolerance
    ELSE FALSE

\* StateManager.mark_processed, the in-memory part
mark_processed(idx, p, current_mtime) ==
    [q \in DOMAIN idx \cup {p} |-> IF q = p THEN current_mtime ELSE idx[q]]

(***************************************************************************)
(* SpecMarks: one StateManager, its operations applied in any order to two *)
(* video files that are touched and renamed in between.                    *)
(***************************************************************************)
MarkDisk == [Videos -> [form : {"raw", "canonical"}, mtime : Ticks]]

OtherParkedForMarks ==
    /\ failures = EmptyLedger
    /\ LedgerParked /\ RunParked /\ MatchParked /\ TrailerParked /\ SeasonParked

InitMarks ==
    /\ st_file = NoStateFile
    /\ st_index = EmptyIndex
    /\ st_disk = [v \in Videos |-> [form |-> "raw", mtime |-> 0]]
    /\ st_pc = "api" /\ st_run = 0 /\ st_log = << >> /\ st_full = {}
    /\ st_marked = << >>
    /\ OtherParkedForMarks

MarksFrame ==
    UNCHANGED <<failures, ledgerVars, runVars, matchVars, trailerVars, seasonVars,
                st_pc, st_full>>

\* self.state.mark_processed(video)
MarkProcessed(v) ==
    /\ st_run < MaxOps
    /\ \E ok \in BOOLEAN :
        LET p == Path(v, st_disk[v].form)
            idx == mark_processed(st_index, p, st_disk[v].mtime)
        IN /\ st_index' = idx
           /\ st_file' = _save_state(st_file, idx, ok)
           /\ st_marked' = [q \in DOMAIN st_marked \cup {p} |->
                               IF q = p THEN st_disk[v].mtime ELSE st_marked[q]]
    /\ st_run' = st_run + 1
    /\ UNCHANGED <<st_disk, st_log>>
    /\ MarksFrame

\* self.state.is_processed(video)
IsProcessed(v) ==
    /\ st_run < MaxOps
    /\ LET p == Path(v, st_disk[v].form)
       IN st_log' = [path |-> p, mtime |-> st_disk[v].mtime,
                     answer |-> is_processed(st_index, p, st_disk[v].mtime),
                     marked |-> p \in DOMAIN st_marked,
                     marked_at |-> IF p \in DOMAIN st_marked
                                   THEN st_marked[p] ELSE 0]
    /\ st_run' = st_run + 1
    /\ UNCHANGED <<st_file, st_index, st_disk, st_marked>>
    /\ MarksFrame

\* the environment: a re-encode or touch moves the modification time
TouchFile(v) ==
    /\ st_run < MaxOps
    /\ \E t \in Ticks \ {st_disk[v].mtime} :
        st_disk' = [st_disk EXCEPT ![v].mtime = t]
    /\ st_run' = st_run + 1
    /\ UNCHANGED <<st_file, st_index, st_log, st_marked>>
    /\ MarksFrame

\* video.rename(...): same content and mtime under the canonical name
RenameFile(v) ==
    /\ st_run < MaxOps
    /\ st_disk[v].form = "raw"
    /\ st_disk' = [st_disk EXCEPT ![v].form = "canonical"]
    /\ st_run' = st_run + 1
    /\ UNCHANGED <<st_file, st_index, st_log, st_marked>>
    /\ MarksFrame

NextMarks ==
    \/ \E v \in Videos : MarkProcessed(v)
    \/ \E v \in Videos : IsProcessed(v)
    \/ \E v \in Videos : TouchFile(v)
    \/ \E v \in Videos : RenameFile(v)

SpecMarks == InitMarks /\ [][NextMarks]_vars

\* C25: is_processed answers true exactly when the queried path was marked
\* and the file's modification time at the query differs from its
\* modification time at the mark by less than one second; a path never
\* marked, or whose file moved by a second or more, is not processed.
C25_ProcessedMark ==
    st_log # << >> =>
        (st_log.answer <=>
            /\ st_log.marked
            /\ Abs(st_log.mtime - st_log.marked_at) < Tolerance)

\* C25 witness: a marked file touched by half a second is still processed
C25_Witness ==
    /\ st_pc = "api" /\ st_log # << >>
    /\ st_log.answer
    /\ st_log.marked
    /\ st_log.mtime # st_log.marked_at

(***************************************************************************)
(* SpecState: consecutive processes.  Each one constructs JellyfinHelper   *)
(* (the StateManager loads STATE_FILE), then run_once clears the state and *)
(* puts one tagged movie folder and one tagged show folder (one episode in *)
(* Season 01) through the file, metadata and trailer stages.  The trailer  *)
(* failure ledger is SpecRun's and is left out here.                       *)
(***************************************************************************)
Forms == {"raw", "canonical", "generic"}

FreshFolder ==
    [form |-> "raw", mtime |-> 0, cached |-> FALSE, meta |-> FALSE,
     trailer |-> FALSE]
DoneFolder ==
    [form |-> "canonical", mtime |-> 0, cached |-> TRUE, meta |-> TRUE,
     trailer |-> TRUE]

\* nothing is left to rename, fetch or download for the folder
FullyProcessed(d) == d.form = "canonical" /\ d.cached /\ d.meta /\ d.trailer

\* TMDbClient.get_movie_by_id / get_tv_by_id: the persistent cache first
CatalogLookup(d, net) ==
    [ok |-> d.cached \/ net,
     fetches |-> IF d.cached THEN 0 ELSE 1,
     disk |-> [d EXCEPT !.cached = d.cached \/ net]]

\* MetadataManager.process_movie_metadata / process_show_metadata
process_metadata(d, net) ==
    IF d.meta THEN [disk |-> d, fetches |-> 0]
    ELSE LET lk == CatalogLookup(d, net)
         IN IF ~lk.ok THEN [disk |-> lk.disk, fetches |-> lk.fetches]
            ELSE [disk |-> [lk.disk EXCEPT !.meta = net],
                  fetches |-> lk.fetches + 1]

\* FileProcessor.process_movie_folder
process_movie_folder(d, net) ==
    LET lk == CatalogLookup(d, net)
    IN IF ~lk.ok
       THEN [disk |-> lk.disk, renames |-> 0, fetches |-> lk.fetches]
       ELSE LET md == process_metadata([lk.disk EXCEPT !.form = "canonical"], net)
            IN [disk |-> md.disk,
                renames |-> IF d.form # "canonical" THEN 1 ELSE 0,
                fetches |-> lk.fetches + md.fetches]

\* FileProcessor._get_episode_title: two uncached requests, else 'Episodul N'
_get_episode_title(net) == IF net THEN "canonical" ELSE "generic"

\* FileProcessor.process_show_folder
process_show_folder(d, net) ==
    LET lk == CatalogLookup(d, net)
    IN IF ~lk.ok
       THEN [disk |-> lk.disk, renames |-> 0, fetches |-> lk.fetches]
       ELSE LET title == _get_episode_title(net)
                md == process_metadata([lk.disk EXCEPT !.form = title], net)
            IN [disk |-> md.disk,
                renames |-> IF d.form # title THEN 1 ELSE 0,
                fetches |-> lk.fetches + 1 + md.fetches]

\* JellyfinHelper._fix_show_episode_titles
_fix_show_episode_titles(d, net) ==
    LET lk == CatalogLookup(d, net)
    IN IF ~lk.ok \/ d.form # "generic"
       THEN [disk |-> lk.disk, renames |-> 0, fetches |-> lk.fetches]
       ELSE [disk |-> [lk.disk EXCEPT !.form = _get_episode_title(net)],
             renames |-> IF net THEN 1 ELSE 0,
             fetches |-> lk.fetches + 1]

\* _handle_trailer for a folder the ledger does not exclude
TrailerStage(d, net) ==
    IF d.trailer THEN [disk |-> d, fetches |-> 0]
    ELSE [disk |-> [d EXCEPT !.trailer = net], fetches |-> 1]

\* JellyfinHelper._process_movie, from the video scan on
_process_movie(d, idx, net) ==
    LET q == is_processed(idx, Path("mv", d.form), d.mtime)
        fp == IF q THEN [disk |-> d, renames |-> 0, fetches |-> 0]
              ELSE process_movie_folder(d, net)
        tr == TrailerStage(fp.disk, net)
    IN [disk |-> tr.disk,
        index |-> IF q THEN idx
                  ELSE mark_processed(idx, Path("mv", fp.disk.form), fp.disk.mtime),
        saved |-> ~q,
        first |-> q, invoked |-> ~q,
        renames |-> fp.renames, fetches |-> fp.fetches + tr.fetches]

\* JellyfinHelper._process_show, from the season scan on
_process_show(d, idx, net) ==
    LET q == is_processed(idx, Path("ep", d.form), d.mtime)
        fp == IF q THEN [disk |-> d, renames |-> 0, fetches |-> 0]
              ELSE process_show_folder(d, net)
        tr == TrailerStage(fp.disk, net)
        lk == CatalogLookup(tr.disk, net)
        fx == _fix_show_episode_titles(lk.disk, net)
    IN [disk |-> fx.disk,
        index |-> mark_processed(idx, Path("ep", fp.disk.form), fp.disk.mtime),
        saved |-> TRUE,
        first |-> q, invoked |-> ~q,
        renames |-> fp.renames + fx.renames,
        fetches |-> fp.fetches + tr.fetches + lk.fetches + fx.fetches]

\* the marks an earlier process left for the library as it stands
MarksOf(disk) ==
    [p \in {Path(v, disk[v].form) : v \in Videos} |-> disk[p[1]].mtime]

InitialLibraries ==
    {[v \in Videos |-> FreshFolder], [v \in Videos |-> DoneFolder]}
InitialStateFiles(disk) == {NoStateFile, CorruptStateFile, StateFileOf(MarksOf(disk))}

FreshLog ==
    [v \in Videos |-> [prior |-> FALSE, first |-> "none", invoked |-> FALSE,
                       renames |-> 0, fetches |-> 0, done |-> FALSE]]

OtherParkedForState ==
    /\ failures = EmptyLedger
    /\ LedgerParked /\ RunParked /\ MatchParked /\ TrailerParked /\ SeasonParked

InitState ==
    /\ st_disk \in InitialLibraries
    /\ st_file \in InitialStateFiles(st_disk)
    /\ st_index = EmptyIndex
    /\ st_pc = "exited" /\ st_run = 0
    /\ st_log = FreshLog
    /\ st_full = {} /\ st_marked = << >>
    /\ OtherParkedForState

StateFrame ==
    UNCHANGED <<failures, ledgerVars, runVars, matchVars, trailerVars, seasonVars,
                st_marked>>

\* helper = JellyfinHelper(): __init__ builds the StateManager
Construct ==
    /\ st_pc = "exited" /\ st_run < MaxRuns
    /\ st_run' = st_run + 1
    /\ st_index' = _load_state(st_file)
    /\ st_log' = [v \in Videos |->
                    [FreshLog[v] EXCEPT !.prior =
                        is_processed(_load_state(st_file),
                                     Path(v, st_disk[v].form), st_disk[v].mtime)]]
    /\ st_pc' = "constructed"
    /\ UNCHANGED <<st_file, st_disk, st_full>>
    /\ StateFrame

RunKeepsState(file, idx) == [file |-> file, index |-> idx]

\* run_once, "Clear state for fresh scan"
ClearedState(file, idx) ==
    IF file.exists
    THEN [file |-> NoStateFile, index |-> _load_state(NoStateFile)]
    ELSE [file |-> file, index |-> idx]

\* run_once up to the folder loops; a failing unlink ends the process
ClearState ==
    /\ st_pc = "constructed"
    /\ \E unlinked \in BOOLEAN :
        IF st_file.exists /\ ~unlinked
        THEN /\ st_pc' = "exited"
             /\ UNCHANGED <<st_file, st_index>>
        ELSE /\ st_pc' = "movies"
             /\ st_file' = ClearedState(st_file, st_index).file
             /\ st_index' = ClearedState(st_file, st_index).index
    /\ UNCHANGED <<st_disk, st_run, st_log, st_full>>
    /\ StateFrame

LogOf(r) ==
    [first |-> IF r.first THEN "true" ELSE "false", invoked |-> r.invoked,
     renames |-> r.renames, fetches |-> r.fetches, done |-> TRUE]

\* the movie loop of run_once: self._process_movie(folder, failures)
ProcessMovieFiles ==
    /\ st_pc = "movies"
    /\ \E net \in BOOLEAN, saved \in BOOLEAN :
        LET r == _process_movie(st_disk["mv"], st_index, net)
        IN /\ st_disk' = [st_disk EXCEPT !["mv"] = r.disk]
           /\ st_index' = r.index
           /\ st_file' = IF r.saved THEN _save_state(st_file, r.index, saved)
                         ELSE st_file
           /\ st_log' = [st_log EXCEPT !["mv"] =
                            [prior |-> st_log["mv"].prior] @@ LogOf(r)]
    /\ st_pc' = "shows"
    /\ UNCHANGED <<st_run, st_full>>
    /\ StateFrame

\* the show loop of run_once: self._process_show(folder, failures)
ProcessShowFiles ==
    /\ st_pc = "shows"
    /\ \E net \in BOOLEAN, saved \in BOOLEAN :
        LET r == _process_show(st_disk["ep"], st_index, net)
        IN /\ st_disk' = [st_disk EXCEPT !["ep"] = r.disk]
           /\ st_index' = r.index
           /\ st_file' = IF r.saved THEN _save_state(st_file, r.index, saved)
                         ELSE st_file
           /\ st_log' = [st_log EXCEPT !["ep"] =
                            [prior |-> st_log["ep"].prior] @@ LogOf(r)]
    /\ st_pc' = "finish"
    /\ UNCHANGED <<st_run, st_full>>
    /\ StateFrame

\* self.state.update_last_scan() and the end of the process
FinishRun ==
    /\ st_pc = "finish"
    /\ \E saved \in BOOLEAN : st_file' = _save_state(st_file, st_index, saved)
    /\ st_full' = {v \in Videos : st_log[v].done /\ FullyProcessed(st_disk[v])}
    /\ st_log' = FreshLog
    /\ st_pc' = "exited"
    /\ UNCHANGED <<st_index, st_disk, st_run>>
    /\ StateFrame

\* the environment, between two runs: a re-encode or touch of a video
TouchVideo(v) ==
    /\ st_pc = "exited"
    /\ \E t \in {st_disk[v].mtime + 1, st_disk[v].mtime + Tolerance} \cap Ticks :
        st_disk' = [st_disk EXCEPT ![v].mtime = t]
    /\ st_full' = st_full \ {v}
    /\ UNCHANGED <<st_file, st_index, st_pc, st_run, st_log>>
    /\ StateFrame

NextState ==
    \/ Construct
    \/ ClearState
    \/ ProcessMovieFiles
    \/ ProcessShowFiles
    \/ FinishRun
    \/ \E v \in Videos : TouchVideo(v)

SpecState == InitState /\ [][NextState]_vars

\* C21: in a run that follows a run which fully processed a folder, with
\* the video's modification time unchanged in between, the per-folder
\* pipeline renames nothing and fetches nothing for that folder.
C21_Idempotence ==
    \A v \in Videos :
        (v \in st_full /\ st_log[v].done) =>
            (st_log[v].renames = 0 /\ st_log[v].fetches = 0)

\* C28: the index is empty when the folder loops start, the first
\* is_processed query of a run for any file answers false, and so a mark a
\* previous run wrote is never honoured.
C28_IndexEmptyAtRunStart ==
    /\ st_pc = "movies" => st_index = EmptyIndex
    /\ \A v \in Videos : st_pc # "off" => st_log[v].first # "true"

\* C28 witness: a later run whose state file held a matching mark for the
\* movie's video when the process started still answers false
C28_Witness ==
    /\ st_pc # "off" /\ st_run >= 2
    /\ st_log["mv"].prior
    /\ st_log["mv"].first = "false"

\* C22: a search call that times out or errors counts as an empty result
\* for that one query: nothing propagates, the query is issued once and
\* never again, the accumulator is what it was before the call, and the
\* loop goes on to the next query (or to the final pick after the last).
C22_FailedQueryIsEmpty ==
    (outcomes # << >> /\ outcomes.kind \in {"timeout", "error"}) =>
        LET i == Len(issued)
        IN /\ ~outcomes.raised /\ ret.at # "raised"
           /\ issued[i] = queries[i]
           /\ \A j \in 1..(i - 1) : issued[j] # issued[i]
           /\ all_candidates = outcomes.before
           /\ ret.at # "early"
           /\ tpc = "loop" => qi = i + 1
           /\ tpc = "done" => (ret.at = "final" /\ i = Len(queries))

\* C22 witness: the second of three queries times out, the candidate of the
\* first query is kept, and the loop stands at the third query
C22_Witness ==
    /\ tpc = "loop" /\ outcomes # << >>
    /\ outcomes.kind = "timeout"
    /\ Len(issued) = 2 /\ Len(queries) = 3 /\ qi = 3
    /\ all_candidates # << >>

\* C24: the accumulator never holds two candidates with the same id nor
\* one with an empty id; whatever a query returns, the records already
\* accumulated stay as they are, and for each new id the record added is
\* the first one with that id in result order.
C24_Deduplicated ==
    /\ \A i, j \in 1..Len(all_candidates) :
          i # j => all_candidates[i].id # all_candidates[j].id
    /\ \A i \in 1..Len(all_candidates) : all_candidates[i].id # ""
    /\ tpc = "loop" =>
          \A rs \in HitLists :
              LET m == MergeResults(rs, seen_ids, all_candidates)
                  n == Len(all_candidates)
              IN /\ SubSeq(m.acc, 1, n) = all_candidates
                 /\ \A k \in (n + 1)..Len(m.acc) :
                       \E i \in 1..Len(rs) :
                           /\ rs[i] = m.acc[k]
                           /\ \A j \in 1..(i - 1) : rs[j].id # rs[i].id
                 /\ \A i \in 1..Len(rs) :
                       rs[i].id # "" =>
                           \E k \in 1..Len(m.acc) : m.acc[k].id = rs[i].id

\* C24 witness: the second query returned a record whose id the first
\* query had already delivered, next to a new one
C24_Witness ==
    /\ outcomes # << >> /\ outcomes.kind = "ok" /\ outcomes.dup
    /\ Len(issued) = 2
    /\ Len(all_candidates) = 2

\* the word is a token of the scored candidate's title
IsToken(w) == w \in _extract_words(candidate.title)

Bonus(cond, n) == IF cond THEN n ELSE 0

\* C23: the score of a candidate that passes the hard checks is the sum
\* 5, +3 for a non-empty year that is a token, +4 for a verified channel,
\* +3 for "official" or "oficial", +5 for "red" together with "band",
\* +2 for a duration of 30 to 240 seconds or -3 above 600 seconds,
\* +1 for at most 10 distinct tokens.
C23_AdditiveScore ==
    (/\ tpc \in {"pick", "done"}
     /\ ~HardRejected(candidate, _extract_words(RefTitle), is_season, season_num))
    => score = 5
               + Bonus(search_year # << >> /\ IsToken(search_year), 3)
               + Bonus(candidate.channel_is_verified, 4)
               + Bonus(IsToken(<<"o", "f", "f", "i", "c", "i", "a", "l">>)
                       \/ IsToken(<<"o", "f", "i", "c", "i", "a", "l">>), 3)
               + Bonus(IsToken(<<"r", "e", "d">>) /\ IsToken(<<"b", "a", "n", "d">>), 5)
               + Bonus(30 <= candidate.duration /\ candidate.duration <= 240, 2)
               - Bonus(candidate.duration > 600, 3)
               + Bonus(Cardinality(_extract_words(candidate.title)) <= 10, 1)

\* C23 witness: every bonus at once, "Movie X 2020 Official Red Band
\* Trailer" from a verified channel, 30 seconds, year 2020: 23 points
C23_Witness ==
    /\ tpc = "pick"
    /\ score = 23
    /\ candidate.duration = 30 /\ candidate.channel_is_verified
    /\ IsToken(<<"r", "e", "d">>) /\ IsToken(<<"b", "a", "n", "d">>)
    /\ IsToken(search_year)

\* the identifier the last ledger call was made for
LastId(t) == t[Len(t)].id

\* C26: starting from the empty ledger, every entry has count >= 1 and is
\* excluded exactly when its count is at least TRAILER_MAX_ATTEMPTS, and a
\* call for one identifier leaves the entry (or absence of an entry) of
\* every other identifier as it was.
C26_LedgerInvariant ==
    /\ [](\A id \in Ids :
            HasEntry(id) =>
                /\ EntryOf(id).count >= 1
                /\ EntryOf(id).excluded <=> EntryOf(id).count >= TRAILER_MAX_ATTEMPTS)
    /\ [][\A id \in Ids :
            (Len(trace') = Len(trace) + 1 /\ LastId(trace') # id) =>
                /\ (Key(id) \in DOMAIN failures') <=> HasEntry(id)
                /\ HasEntry(id) => failures'[Key(id)] = EntryOf(id)]_vars

\* C26 witness: one identifier excluded after two failures next to another
\* with a single failure
C26_Witness ==
    \E a, b \in Ids :
        /\ a # b /\ pc = "off" /\ Len(trace) = 3
        /\ HasEntry(a) /\ EntryOf(a).count = TRAILER_MAX_ATTEMPTS /\ EntryOf(a).excluded
        /\ HasEntry(b) /\ EntryOf(b).count = 1 /\ ~EntryOf(b).excluded

\* the count stored for identifier id, 0 without an entry
CountOf(f, id) == IF Key(id) \in DOMAIN f THEN f[Key(id)].count ELSE 0

\* C27: the ledger entry is found by the numeric identifier alone.  A failed
\* attempt of a pre-2000 folder adds 1 to the count stored for its
\* identifier whichever folder, movie or show, recorded the earlier
\* failures; a successful attempt leaves no entry for the identifier; and
\* after every step all folders carrying one identifier are excluded or
\* not excluded together.
C27_SharedLedgerKey ==
    [][\A f \in Folders :
          (Stepped(f) /\ name'[f].id # 0 /\ "attempt" \in hist'[f].stages) =>
              LET id == name'[f].id
              IN /\ (~trailer'[f] /\ Pre2000(name'[f])) =>
                        /\ Key(id) \in DOMAIN failures'
                        /\ CountOf(failures', id) = CountOf(failures, id) + 1
                 /\ trailer'[f] => Key(id) \notin DOMAIN failures'
                 /\ \A g \in Folders :
                        name'[g].id = id /\ trailer'[f] =>
                            ~_is_trailer_excluded(failures', name'[g].id)]_vars

\* C27 witness: within the first run the movie m2 and the show s1, carrying
\* the same identifier, failed once each and the shared entry is excluded
C27_Witness ==
    /\ pc # "off" /\ run = 1
    /\ name["m2"].id # 0 /\ name["m2"].id = name["s1"].id
    /\ hist["m2"].n = 1 /\ "attempt" \in hist["m2"].stages /\ ~trailer["m2"]
    /\ hist["s1"].n = 1 /\ "attempt" \in hist["s1"].stages /\ ~trailer["s1"]
    /\ CountOf(failures, name["s1"].id) = TRAILER_MAX_ATTEMPTS
    /\ _is_trailer_excluded(failures, name["m2"].id)

\* C29: when the preferred reference title (the original title if it is
\* non-empty, else the fallback title) has no words, no query is issued
\* and no match is returned, even if the other title has words.
C29_WordlessReferenceTitle ==
    (RefTitle # << >> /\ _extract_words(RefTitle) = {}) =>
        /\ issued = << >> /\ queries = << >>
        /\ tpc # "start" => (tpc = "done" /\ ~ret.found /\ ret.at = "guard")

\* C29 witness: the original title "!" has no words, the fallback "X" has
\* one, and the search has returned without a query
C29_Witness ==
    /\ original_title = <<"!">> /\ _extract_words(en_title) # {}
    /\ tpc = "done" /\ ret.at = "guard" /\ issued = << >>

(***************************************************************************)
(* SpecSeasons: one call of _download_season_trailers.  A season folder is *)
(* "Season <token>"; the token is kept as text, since the folders are      *)
(* sorted as paths and the season number is parsed from the token.         *)
(***************************************************************************)
MaxSeasons == 4

SeasonTokens ==
    { <<"0", "0">>, <<"0", "1">>, <<"0", "2">>, <<"0", "3">>, <<"1", "0">>,
      <<"2">>, <<"X">> }

IsDigit(c) == \E i \in 1..10 : Digits[i] = c

\* the code point order of the characters used in the tokens
CharRank(c) ==
    IF IsDigit(c) THEN CHOOSE i \in 1..10 : Digits[i] = c
    ELSE 10 + (CHOOSE i \in 1..26 : Upper[i] = c)

\* a < b for two strings
RECURSIVE StrLess(_, _)
StrLess(a, b) ==
    IF b = << >> THEN FALSE
    ELSE IF a = << >> THEN TRUE
    ELSE IF Head(a) = Head(b) THEN StrLess(Tail(a), Tail(b))
    ELSE CharRank(Head(a)) < CharRank(Head(b))

\* sorted(season_folders)
RECURSIVE SortedSeasons(_)
SortedSeasons(S) ==
    IF S = {} THEN << >>
    ELSE LET m == CHOOSE x \in S : \A y \in S \ {x} : StrLess(x, y)
         IN <<m>> \o SortedSeasons(S \ {m})

RECURSIVE IntOf(_, _)
IntOf(tok, acc) ==
    IF tok = << >> THEN acc
    ELSE IntOf(Tail(tok), 10 * acc + (CHOOSE i \in 1..10 : Digits[i] = Head(tok)) - 1)

\* int(season_folder.name.split()[1]); -1 stands for the exception
SeasonNumber(tok) ==
    IF tok # << >> /\ \A i \in 1..Len(tok) : IsDigit(tok[i])
    THEN IntOf(tok, 0) ELSE -1

\* the search found nothing, the download failed, or the trailer was saved
SeasonOutcomes == {"nomatch", "dlfail", "ok"}

SeasonStepExistsKeepsCount(num, exists, outcome, misses) ==
    IF num < 0 THEN [kind |-> "unparsable", misses |-> misses, stop |-> FALSE]
    ELSE IF num = 1 THEN [kind |-> "first", misses |-> misses, stop |-> FALSE]
    ELSE IF exists THEN [kind |-> "exists", misses |-> misses, stop |-> FALSE]
    ELSE IF outcome = "ok" THEN [kind |-> "found", misses |-> 0, stop |-> FALSE]
    ELSE [kind |-> "miss", misses |-> misses + 1, stop |-> misses + 1 >= 2]

\* the body of the for loop for one season folder
SeasonStep(num, exists, outcome, misses) ==
    IF num < 0 THEN [kind |-> "unparsable", misses |-> misses, stop |-> FALSE]
    ELSE IF num = 1 THEN [kind |-> "first", misses |-> misses, stop |-> FALSE]
    ELSE IF exists THEN [kind |-> "exists", misses |-> 0, stop |-> FALSE]
    ELSE IF outcome = "ok" THEN [kind |-> "found", misses |-> 0, stop |-> FALSE]
    ELSE [kind |-> "miss", misses |-> misses + 1, stop |-> misses + 1 >= 2]

OtherParkedForSeasons ==
    /\ failures = EmptyLedger
    /\ LedgerParked /\ RunParked /\ MatchParked /\ TrailerParked /\ StateParked

InitSeasons ==
    /\ \E S \in SUBSET SeasonTokens :
          /\ Cardinality(S) <= MaxSeasons
          /\ sn_disk \in [S -> BOOLEAN]
    /\ sn_todo = << >> /\ sn_misses = 0 /\ sn_log = << >> /\ sn_pc = "start"
    /\ OtherParkedForSeasons

SeasonsFrame ==
    UNCHANGED <<failures, ledgerVars, runVars, matchVars, trailerVars, stateVars>>

\* the folder listing, the early return, consecutive_misses = 0
StartSeasons ==
    /\ sn_pc = "start"
    /\ IF DOMAIN sn_disk = {}
       THEN sn_pc' = "done" /\ sn_todo' = << >>
       ELSE sn_pc' = "loop" /\ sn_todo' = SortedSeasons(DOMAIN sn_disk)
    /\ UNCHANGED <<sn_disk, sn_misses, sn_log>>
    /\ SeasonsFrame

\* one iteration of the for loop
VisitSeason ==
    /\ sn_pc = "loop" /\ sn_todo # << >>
    /\ \E outcome \in SeasonOutcomes :
        LET tok == Head(sn_todo)
            r == SeasonStep(SeasonNumber(tok), sn_disk[tok], outcome, sn_misses)
        IN /\ sn_disk' = [sn_disk EXCEPT ![tok] = @ \/ r.kind = "found"]
           /\ sn_misses' = r.misses
           /\ sn_log' = Append(sn_log, [name |-> tok, kind |-> r.kind,
                                        misses |-> r.misses])
           /\ sn_todo' = Tail(sn_todo)
           /\ sn_pc' = IF r.stop THEN "done" ELSE "loop"
    /\ SeasonsFrame

\* the loop is exhausted
EndSeasons ==
    /\ sn_pc = "loop" /\ sn_todo = << >>
    /\ sn_pc' = "done"
    /\ UNCHANGED <<sn_todo, sn_disk, sn_misses, sn_log>>
    /\ SeasonsFrame

NextSeasons == StartSeasons \/ VisitSeason \/ EndSeasons

SpecSeasons == InitSeasons /\ [][NextSeasons]_vars

\* the counter before the i-th visited folder
MissesBefore(i) == IF i = 1 THEN 0 ELSE sn_log[i - 1].misses

IsSearch(e) == e.kind \in {"found", "miss"}

\* the searches made, in order
SeasonSearches == SelectSeq(sn_log, IsSearch)

\* folders are visited in sorted order, season 1 is never searched, the
\* counter counts misses since the last existing or downloaded trailer, and
\* nothing is visited once it has reached 2
BreakerRules ==
    /\ \A i \in 1..Len(sn_log) :
          /\ \A j \in 1..(i - 1) : StrLess(sn_log[j].name, sn_log[i].name)
          /\ \A t \in DOMAIN sn_disk :
                StrLess(t, sn_log[i].name) => \E j \in 1..(i - 1) : sn_log[j].name = t
          /\ IsSearch(sn_log[i]) => SeasonNumber(sn_log[i].name) # 1
          /\ sn_log[i].misses =
                IF sn_log[i].kind = "miss" THEN MissesBefore(i) + 1
                ELSE IF sn_log[i].kind \in {"exists", "found"} THEN 0
                ELSE MissesBefore(i)
          /\ i < Len(sn_log) => sn_log[i].misses < 2
    /\ sn_log # << >> => sn_misses = sn_log[Len(sn_log)].misses
    /\ sn_misses >= 2 => sn_pc = "done"

\* C30 (as claimed): the rules above, and never more than 2 failing
\* season searches in a row.
C30_AtMostTwoFailingSearchesInARow ==
    /\ BreakerRules
    /\ \A i \in 1..(Len(SeasonSearches) - 2) :
          ~(/\ SeasonSearches[i].kind = "miss"
            /\ SeasonSearches[i + 1].kind = "miss"
            /\ SeasonSearches[i + 2].kind = "miss")

\* C30 (amended): the rules above, and never more than 2 failing season
\* searches without a season in between whose trailer exists already or is
\* downloaded.
C30_CircuitBreaker ==
    /\ BreakerRules
    /\ \A i, j, k \in 1..Len(sn_log) :
          (/\ i < j /\ j < k
           /\ sn_log[i].kind = "miss" /\ sn_log[j].kind = "miss"
           /\ sn_log[k].kind = "miss")
          => \E m \in (i + 1)..(k - 1) : sn_log[m].kind \in {"exists", "found"}

\* C30 witness: season 0 misses, season 1 is skipped, season 2 misses, and
\* the loop stops with a season folder left unvisited
C30_Witness ==
    /\ sn_pc = "done" /\ sn_todo # << >> /\ sn_misses = 2
    /\ Len(sn_log) = 3
    /\ sn_log[1].kind = "miss" /\ sn_log[2].kind = "first" /\ sn_log[3].kind = "miss"

====
